---- MODULE Spec2Model ----
(***************************************************************************)
(* Verification model of the NotebookLM assistant extension:               *)
(*   - UploadQueue (src/src/services/upload-queue.ts) with the zustand     *)
(*     store's queue operations (src/src/components/Header.tsx),           *)
(*   - NotebookLMService token handling, add-source operations, source     *)
(*     loading, extended content and deleteSources (src/unnamed/part_002), *)
(*   - DOMExtractor background-tab extraction, its waits and its DOM       *)
(*     extraction functions (src/unnamed/part_001),                        *)
(*   - TextSplitter (src/unnamed/part_004),                                *)
(*   - the extraction pool of ExportService.loadFlashcardsAsync            *)
(*     (src/src/services/export-service.ts) and the calls ExportDialog     *)
(*     makes of it (src/unnamed/part_007).                                 *)
(* Each asynchronous function is cut at its await points: one action is    *)
(* the synchronous block that runs when an awaited result arrives.         *)
(***************************************************************************)
EXTENDS Integers, Sequences, FiniteSets, TLC

\* ------------------------------------------------------------------------
\* Bounds of the model
\* ------------------------------------------------------------------------
\* items ever added to the upload queue
MaxItems == 2
\* processQueue invocations that pass the isProcessing guard
MaxRuns == 2
\* the length of the texts over CHUNK_SIZE that the queue's items hold
LargeTextLen == 225001

\* how many of the items added to the queue left to itself are over CHUNK_SIZE
MaxLargeItems == 1

\* concurrent rpc calls
MaxCallers == 3

\* concurrent calls of the background-tab functions
MaxProcs == 2

\* iterations of a poll loop before its deadline has passed for certain
MaxPolls == 2

\* error markers in one RPC response
MaxMarkers == 2

\* characters of a short text handed to the splitter
MaxTextLen == 4

\* chunkSize and chunkOverlap of a splitter for short texts
MaxChunkSize == 3

MaxOverlap == 2

\* a text longer than the splitter's search window, with its splitter
MidTextLen == 600

MidChunkSize == 250

MidOverlap == 10

\* characters of the note of scenario A
NoteLength == 500000

\* source ids handed to loadMultipleSourceContents
MaxIds == 4

\* the concurrency it is called with (3 in the program)
MaxWorkers == 3

\* interactive artifacts handed to the extraction pool, over all the calls
\* of loadFlashcardsAsync
MaxArtifacts == 3

\* calls of loadContent the export dialog makes: one on mount and one for
\* each later change of its notebookId
MaxLoadCalls == 2

\* tab ids the browser hands out
MaxTabs == 3

\* artifacts whose content getNotebookExtendedContent fetches
MaxReports == 1

\* the longest a script call takes to settle, in ms
MaxScriptMs == 700

\* source ids handed to deleteSources
MaxDeleteIds == 41

\* calls of loadSourceContent at the same time
MaxLoads == 2

\* ------------------------------------------------------------------------
\* Strings.  A title is a sequence of tokens; the tokens are single
\* characters except "(Part", which stands for that literal substring.
\* ------------------------------------------------------------------------
\* String.prototype.toLowerCase on one character
LowerChar(c) == IF c = "A" THEN "a" ELSE IF c = "B" THEN "b" ELSE c

\* String.prototype.toLowerCase
ToLowerCase(t) == [i \in 1..Len(t) |-> LowerChar(t[i])]

RECURSIVE TrimStart(_)
TrimStart(t) == IF t # <<>> /\ Head(t) = " " THEN TrimStart(Tail(t)) ELSE t

RECURSIVE TrimEnd(_)
TrimEnd(t) ==
    IF t # <<>> /\ t[Len(t)] = " " THEN TrimEnd(SubSeq(t, 1, Len(t) - 1)) ELSE t

\* String.prototype.trim
Trim(t) == TrimEnd(TrimStart(t))

\* String.prototype.includes for a single token
Includes(t, tok) == \E i \in 1..Len(t) : t[i] = tok

\* String.prototype.startsWith
StartsWith(t, p) == Len(p) <= Len(t) /\ SubSeq(t, 1, Len(p)) = p

\* title.split('(Part')[0]: the text before the first "(Part"
RECURSIVE BeforePart(_)
BeforePart(t) ==
    IF t = <<>> \/ Head(t) = "(Part" THEN <<>> ELSE <<Head(t)>> \o BeforePart(Tail(t))

\* ------------------------------------------------------------------------
\* URLs, as the fields `new URL(u)` exposes.  scheme "none" is the absent
\* or empty url, scheme "bad" a string `new URL` rejects.
\* ------------------------------------------------------------------------
NoUrl == [scheme |-> "none", host |-> "", path |-> "", seg |-> "", v |-> "", track |-> FALSE]

Url(scheme, host, path, seg, v, track) ==
    [scheme |-> scheme, host |-> host, path |-> path, seg |-> seg, v |-> v, track |-> track]

\* length of the video ids the model uses
VidLen(v) ==
    CASE v = "" -> 0
      [] v = "abc" -> 3
      [] v = "abcdefghijk" -> 11
      [] v = "abcdefghijkXY" -> 13
      [] OTHER -> 0

\* videoId.substring(0, 11)
VidCut(v) == IF v = "abcdefghijkXY" THEN "abcdefghijk" ELSE v

IsYouTubeHost(h) == h \in {"www.youtube.com", "youtu.be"}

IsChannelPath(p) == p \in {"/@chan", "/channel/x", "/c/x"}

\* normalizeUrl, the closure of checkDuplicate
NormalizeUrl(u) ==
    IF u.scheme \in {"bad", "none"} THEN u
    ELSE IF IsYouTubeHost(u.host) /\ IsChannelPath(u.path)
         THEN [u EXCEPT !.v = "", !.track = FALSE]
    ELSE LET videoId == IF u.v = "" /\ u.host = "youtu.be" THEN u.seg ELSE u.v
         IN  IF IsYouTubeHost(u.host) /\ videoId # "" /\ VidLen(videoId) >= 10
             THEN Url("https", "www.youtube.com", "/watch", "watch", VidCut(videoId), FALSE)
             ELSE [u EXCEPT !.track = FALSE]

\* ------------------------------------------------------------------------
\* RPC results.  A response is the sequence of its inline ["e",4,...
\* markers: a number is the code of a marker of the full form
\* ["e",4,null,null,<code>], NoCode a marker of another form.
\* ------------------------------------------------------------------------
NoCode == -1

\* the allow-list of addSource
NormalErrorCodes == {139, 140, 141, 412, 466, 496, 497, 536, 537, 552, 553}

\* the allow-list of the two catch blocks of processItem
QueueNormalErrorCodes == {139, 140, 141, 412, 466, 496, 497, 536, 537, 552, 553}

\* the allow-list of addTextSource
TextNormalErrorCodes == {139, 140, 141, 412, 466, 536, 537, 552, 553}

\* the codes the properties below count as allow-listed: the list of
\* addSource, the longest of the three
BenignCodes == {139, 140, 141, 412, 466, 496, 497, 536, 537, 552, 553}

RpcFail(msg) == [ok |-> FALSE, markers |-> <<>>, err |-> msg]

RpcOk(markers) == [ok |-> TRUE, markers |-> markers, err |-> ""]

\* response.match(/\["e",4,null,null,(\d+)\]/): the code of the first
\* marker of the full form, NoCode when there is none
RECURSIVE FirstCode(_)
FirstCode(markers) ==
    IF markers = <<>> THEN NoCode
    ELSE IF Head(markers) # NoCode THEN Head(markers) ELSE FirstCode(Tail(markers))

\* Errors: msg is the message; code is the number in
\* "RPC returned error code: <code>", NoCode for every other message.
Err(msg) == [msg |-> msg, code |-> NoCode]

ErrCode(code) == [msg |-> "RPC returned error code:", code |-> code]

NoError == Err("")

\* The result of one call of an add-source operation: whether it threw,
\* the error, and the id of the RPC it issued ("" when it issued none).
\* warned says that console.warn reported an unexpected code.
Returned(rpcId, warned) ==
    [threw |-> FALSE, err |-> NoError, rpcId |-> rpcId, warned |-> warned]

Threw(e, rpcId, warned) ==
    [threw |-> TRUE, err |-> e, rpcId |-> rpcId, warned |-> warned]

\* ------------------------------------------------------------------------
\* NotebookLMService: the add-source operations, as functions of the
\* result `rpc` of the one RPC the call issues.
\* ------------------------------------------------------------------------
\* addFileSource: awaits rpc('o4cbdc') and does not look at the response
AddFileSource(rpc) ==
    IF ~rpc.ok THEN Threw(Err(rpc.err), "o4cbdc", FALSE) ELSE Returned("o4cbdc", FALSE)

\* addTextSource: an unexpected code is logged with console.warn only
AddTextSource(rpc) ==
    IF ~rpc.ok THEN Threw(Err(rpc.err), "izAoDd", FALSE)
    ELSE LET errorCode == FirstCode(rpc.markers)
         IN  Returned("izAoDd", rpc.markers # <<>> /\ errorCode # NoCode
                                /\ errorCode \notin TextNormalErrorCodes)

\* Variant of AddSourceCheck: every inline code is thrown, under a message
\* that does not carry the code.
AddSourceCheckPlain(rpc) ==
    IF ~rpc.ok THEN Threw(Err(rpc.err), "izAoDd", FALSE)
    ELSE IF rpc.markers # <<>> /\ FirstCode(rpc.markers) # NoCode
         THEN Threw(Err("RPC returned an error"), "izAoDd", TRUE)
         ELSE Returned("izAoDd", FALSE)

\* Variant of AddSourceCheck: an unexpected code is logged only, as
\* addTextSource does.
AddSourceCheckWarnOnly(rpc) ==
    IF ~rpc.ok THEN Threw(Err(rpc.err), "izAoDd", FALSE)
    ELSE Returned("izAoDd", rpc.markers # <<>> /\ FirstCode(rpc.markers) # NoCode
                            /\ FirstCode(rpc.markers) \notin NormalErrorCodes)

\* the check of the izAoDd response in addSource
AddSourceCheck(rpc) ==
    IF ~rpc.ok THEN Threw(Err(rpc.err), "izAoDd", FALSE)
    ELSE LET errorCode == FirstCode(rpc.markers)
         IN  IF rpc.markers # <<>> /\ errorCode # NoCode
                   /\ errorCode \notin NormalErrorCodes
             THEN Threw(ErrCode(errorCode), "izAoDd", TRUE)
             ELSE Returned("izAoDd", FALSE)

\* addSource(notebookId, content): ctype is content.type, blank says that
\* content.content is empty or whitespace only
AddSource(ctype, blank, rpc) ==
    CASE ctype = "text" ->
            IF blank THEN Threw(Err("Text content cannot be empty"), "", FALSE)
            ELSE AddSourceCheck(rpc)
      [] ctype = "url" -> AddSourceCheck(rpc)
      [] ctype = "file" -> AddFileSource(rpc)
      [] OTHER -> Threw(Err("Unsupported content type"), "", FALSE)

\* ------------------------------------------------------------------------
\* Texts and TextSplitter (src/unnamed/part_004).  A text is its length
\* and its characters by position (from 0); a position that is not listed
\* holds the letter "a", so a long text of plain letters is no more than
\* its length.
\* ------------------------------------------------------------------------
Text(len, marks) == [len |-> len, marks |-> marks]

\* text[p]
CharAt(t, p) == IF p \in DOMAIN t.marks THEN t.marks[p] ELSE "a"

Max2(a, b) == IF a >= b THEN a ELSE b

Min2(a, b) == IF a <= b THEN a ELSE b

MaxOf(S) == CHOOSE x \in S : \A y \in S : y <= x

\* String.prototype.substring(from, to): both ends are clamped to the text
\* and swapped when from > to
Substring(t, from, to) ==
    LET f == Min2(Max2(from, 0), t.len)
        e == Min2(Max2(to, 0), t.len)
        lo == Min2(f, e)
        hi == Max2(f, e)
        kept == {m \in DOMAIN t.marks : lo <= m /\ m < hi}
    IN  Text(hi - lo, [p \in {m - lo : m \in kept} |-> t.marks[p + lo]])

\* String.prototype.lastIndexOf(needle), -1 when absent.  The needles of
\* the splitter start with a character other than "a": a match starts at
\* a listed position.
LastIndexOf(t, needle) ==
    LET hits == {p \in DOMAIN t.marks :
                    /\ p + Len(needle) <= t.len
                    /\ \A k \in 1..Len(needle) : CharAt(t, p + k - 1) = needle[k]}
    IN  IF hits = {} THEN -1 ELSE MaxOf(hits)

\* CHUNK_SIZE of content-parser.ts
CHUNK_SIZE == 225000

\* the default chunkOverlap of the TextSplitter constructor
DefaultChunkOverlap == 1000

\* how far splitText looks back and forward for a break point
LookAround == 200

Chunk(text, index, start, end) ==
    [text |-> text, index |-> index, start |-> start, end |-> end]

\* the end of the chunk that starts at start
ChunkEnd(text, chunkSize, start) ==
    LET end == start + chunkSize
        searchStart == Max2(start, end - LookAround)
        searchEnd == Min2(text.len, end + LookAround)
        searchText == Substring(text, searchStart, searchEnd)
        paragraph == LastIndexOf(searchText, <<"\n", "\n">>)
        sentence == LastIndexOf(searchText, <<".", " ">>)
        breakPoint == IF paragraph # -1 THEN paragraph
                      ELSE IF sentence # -1 THEN sentence
                      ELSE LastIndexOf(searchText, <<" ">>)
    IN  IF end < text.len
        THEN IF breakPoint # -1
             THEN searchStart + breakPoint + (IF breakPoint = paragraph THEN 2 ELSE 1)
             ELSE end
        ELSE text.len

\* Variant of NextStart: the overlap is counted from the character after
\* the chunk.
NextStartPastEnd(start, end, chunkOverlap) == Max2(start + 1, end + 1 - chunkOverlap)

\* Variant of NextStart: the next chunk may start where this one started.
NextStartNoProgress(start, end, chunkOverlap) == Max2(start, end - chunkOverlap)

\* start = Math.max(start + 1, end - this.chunkOverlap)
NextStart(start, end, chunkOverlap) == Max2(start + 1, end - chunkOverlap)

\* the chunks the while loop of splitText pushes in its next count
\* iterations, entered with start and index.  The iterations are taken by
\* halves: the second half goes on where the first one ended.
RECURSIVE SplitRun(_, _, _, _, _, _)
SplitRun(text, chunkSize, chunkOverlap, start, index, count) ==
    IF ~(start < text.len) \/ count < 1 THEN <<>>
    ELSE IF count = 1
    THEN LET end == ChunkEnd(text, chunkSize, start)
         IN  <<Chunk(Substring(text, start, end), index, start, end)>>
    ELSE LET half == count \div 2
             first == SplitRun(text, chunkSize, chunkOverlap, start, index, half)
             last == first[Len(first)]
         IN  IF Len(first) < half THEN first
             ELSE first \o SplitRun(text, chunkSize, chunkOverlap,
                                    NextStart(last.start, last.end, chunkOverlap),
                                    index + half, count - half)

\* the while loop of splitText: start grows by at least one in every
\* iteration, so the loop ends within text.length iterations
SplitLoop(text, chunkSize, chunkOverlap, start, index) ==
    SplitRun(text, chunkSize, chunkOverlap, start, index, text.len - start)

\* Variant of SplitText: a text of exactly chunkSize characters goes
\* through the loop.
SplitTextBelow(text, chunkSize, chunkOverlap) ==
    IF text.len < chunkSize
    THEN <<Chunk(text, 0, 0, text.len)>>
    ELSE SplitLoop(text, chunkSize, chunkOverlap, 0, 0)

\* TextSplitter.splitText of a splitter built with (chunkSize, chunkOverlap)
SplitText(text, chunkSize, chunkOverlap) ==
    IF text.len <= chunkSize
    THEN <<Chunk(text, 0, 0, text.len)>>
    ELSE SplitLoop(text, chunkSize, chunkOverlap, 0, 0)

\* ------------------------------------------------------------------------
\* State
\* ------------------------------------------------------------------------
\* The store (useStore) and UploadQueue:
\*   uploadQueue         the store's uploadQueue, in insertion order
\*   selectedNotebookId  the store's selectedNotebookId
\*   isProcessing        UploadQueue.isProcessing
\*   runs                the processQueue invocations: position and locals
\*   hist                per item id, what has been done for the item (history)
\*   started             the item ids in the order processItem was entered
\*   nextId              the id the next added item gets (crypto.randomUUID
\*                       gives every item a fresh id)
\*   wide                fixed at the start: TRUE when a single item is drawn
\*                       from the whole catalogue and its results are recorded
\*                       in hist, FALSE when several items are drawn from the
\*                       short catalogue
VARIABLES uploadQueue, selectedNotebookId, isProcessing, runs, hist, started, nextId,
          wide

queueVars ==
    <<uploadQueue, selectedNotebookId, isProcessing, runs, hist, started, nextId, wide>>

\* NotebookLMService (session tokens):
\*   tokens              NotebookLMService.tokens: NoTokens, or the caller
\*                       whose fetch of the token page stored them
\*   isRefreshingTokens  NotebookLMService.isRefreshingTokens
\*   callers             the rpc() calls: position, and the tokens the POST
\*                       was built with
\*   fetchCount          token-page fetches started so far (history)
VARIABLES tokens, isRefreshingTokens, callers, fetchCount

tokenVars == <<tokens, isRefreshingTokens, callers, fetchCount>>

\* DOMExtractor (background tabs):
\*   procs     the calls of extractDataFromBackgroundTab and
\*             fetchImageViaBackgroundTab: position and locals
\*   tabs      the browser's tabs by id: "unused", "open" or "closed"
\*   removed   the tab ids chrome.tabs.remove was called with (history)
VARIABLES procs, tabs, removed

tabVars == <<procs, tabs, removed>>

\* One call of an add-source operation of NotebookLMService:
\*   addCall   the operation, its content and the result of its RPC
\*   addOut    how the call ended
VARIABLES addCall, addOut

addVars == <<addCall, addOut>>

\* One call of TextSplitter.splitText:
\*   splitCall   the splitter (chunkSize, chunkOverlap) and the text
\*   splitOut    the chunks returned
VARIABLES splitCall, splitOut

splitVars == <<splitCall, splitOut>>

\* the upload queue, the tokens, the background tabs and the add-source call
coreVars == <<queueVars, tokenVars, tabVars, addVars>>

\* One call of NotebookLMService.loadMultipleSourceContents: its locals,
\* its workers and what they have loaded
VARIABLE loader

\* ExportDialog (part_007): its loadingRef and the calls of loadContent its
\* effect has made, each with its pass through the worker pool of
\* ExportService.loadFlashcardsAsync
VARIABLE dialog

\* One call of NotebookLMService.getNotebookExtendedContent: its position
\* and its result so far
VARIABLE ext

\* One call of a DOM extraction function of DOMExtractor: the function,
\* the await it is at and how it ended
VARIABLE dom

\* One wait of the DOM extraction engine (a tab-load wait or a poll loop)
\* and the time that has passed since it began
VARIABLE wait

\* One call of NotebookLMService.deleteSources: its loop and the RPCs sent
VARIABLE del

\* Concurrent calls of NotebookLMService.loadSourceContent
VARIABLE fulltext

\* the other parts of the model
moreVars == <<splitVars, loader, dialog, ext, dom, wait, del, fulltext>>

\* for the actions of each of them, the rest of them
exceptSplit == <<loader, dialog, ext, dom, wait, del, fulltext>>

exceptLoader == <<splitVars, dialog, ext, dom, wait, del, fulltext>>

exceptPool == <<splitVars, loader, ext, dom, wait, del, fulltext>>

exceptExt == <<splitVars, loader, dialog, dom, wait, del, fulltext>>

exceptDom == <<splitVars, loader, dialog, ext, wait, del, fulltext>>

exceptWait == <<splitVars, loader, dialog, ext, dom, del, fulltext>>

exceptDelete == <<splitVars, loader, dialog, ext, dom, wait, fulltext>>

exceptFulltext == <<splitVars, loader, dialog, ext, dom, wait, del>>

vars == <<coreVars, moreVars>>

\* ------------------------------------------------------------------------
\* Upload items
\* ------------------------------------------------------------------------
NoNotebook == ""

Notebook1 == "nb1"

WebUrl == Url("https", "example.com", "/article", "article", "", FALSE)

ChromeUrl == Url("chrome", "newtab", "", "", "", FALSE)

YouTubeUrl == Url("https", "www.youtube.com", "/watch", "watch", "abcdefghijk", TRUE)

YouTubeCanonical == Url("https", "www.youtube.com", "/watch", "watch", "abcdefghijk", FALSE)

\* The shapes of the items the model adds: one per branch of processItem.
\* content is "none", "blank", "small" (at most CHUNK_SIZE characters) or
\* "large"; file is "none", "binary" (an image), "text" (processFile yields
\* one text), "textLarge" (processFile yields chunks) or "unreadable"
\* (processFile throws: the FileReader fails, the PDF cannot be read, or
\* the extension is not supported).
Shape(type, url, content, file) ==
    [type |-> type, url |-> url, content |-> content, file |-> file]

ItemShapes ==
    { Shape("page", WebUrl, "small", "none"),
      Shape("page", ChromeUrl, "small", "none"),
      Shape("page", NoUrl, "large", "none"),
      Shape("page", NoUrl, "blank", "none"),
      Shape("selection", NoUrl, "none", "none"),
      Shape("youtube", YouTubeUrl, "none", "none"),
      Shape("file", NoUrl, "none", "none"),
      Shape("file", NoUrl, "none", "binary"),
      Shape("file", NoUrl, "none", "text"),
      Shape("file", NoUrl, "none", "textLarge"),
      Shape("file", NoUrl, "none", "unreadable"),
      Shape("note", NoUrl, "small", "none"),
      Shape("note", NoUrl, "large", "none") }

\* the short catalogue: a throw at once, and a text file submitted whole
\* with its wait
ShortShapes ==
    { Shape("page", NoUrl, "blank", "none"),
      Shape("file", NoUrl, "none", "text") }

ItemTitles == { <<"a">>, <<>> }

ShortTitles == { <<"a">> }

Shapes(w) == IF w THEN ItemShapes ELSE ShortShapes

Titles(w) == IF w THEN ItemTitles ELSE ShortTitles

\* an item whose text is over CHUNK_SIZE
IsLarge(shape) == shape.content = "large" \/ shape.file = "textLarge"

\* the titles of the items of a shape
TitlesOf(shape, w) == IF IsLarge(shape) THEN ShortTitles ELSE Titles(w)

\* how many items are added
ItemLimit(w) == IF w THEN 1 ELSE MaxItems

\* the title parseSelection gives a selection
SelectedTextTitle == <<"Selected Text">>

Source(title, url) == [title |-> title, url |-> url]

\* the source lists getNotebook may return
SourceLists ==
    { {},
      {Source(<<"A", " ">>, NoUrl)},
      {Source(<<" ">>, NoUrl)},
      {Source(<<"b">>, YouTubeCanonical)} }

ShortSourceLists == { {}, {Source(<<"A", " ">>, NoUrl)} }

Sources(w) == IF w THEN SourceLists ELSE ShortSourceLists

\* a new UploadItem, as the handlers of Header.tsx build it; parts is the
\* number of chunks the splitter yields for its text when that is large.
\* handleFileSelect has the file processed first and stores the number of
\* its chunks in the item: chunks: processed.needsChunking ?
\* processed.chunks?.length : undefined
NewItem(id, shape, title, parts, notebookId) ==
    [id |-> id, type |-> shape.type, title |-> title, url |-> shape.url,
     content |-> shape.content, file |-> shape.file, parts |-> parts,
     notebookId |-> notebookId, status |-> "pending", error |-> NoError,
     chunks |-> IF shape.type = "file" /\ shape.file = "textLarge" THEN parts ELSE 0,
     currentChunk |-> 0]

\* `${title} (Part ${i}/${n})`
PartTitle(title, i, n) == title \o <<" ", "(Part", " ", ToString(i), "/", ToString(n), ")">>

\* ------------------------------------------------------------------------
\* Store operations (Header.tsx, useStore)
\* ------------------------------------------------------------------------
\* { ...item, ...updates }
Merge(item, updates) ==
    [f \in DOMAIN item |-> IF f \in DOMAIN updates THEN updates[f] ELSE item[f]]

AddToQueueOp(q, item) == Append(q, item)

\* Variant of UpdateQueueItem: the id is not compared.
UpdateEveryItem(q, id, updates) == [i \in DOMAIN q |-> Merge(q[i], updates)]

UpdateQueueItem(q, id, updates) ==
    [i \in DOMAIN q |-> IF q[i].id = id THEN Merge(q[i], updates) ELSE q[i]]

RemoveFromQueueOp(q, id) == SelectSeq(q, LAMBDA it : it.id # id)

ClearQueueOp(q) == <<>>

\* ------------------------------------------------------------------------
\* UploadQueue.checkDuplicate, given the sources getNotebook returned
\* ------------------------------------------------------------------------
\* Variant of TitleMatch: titles are compared as they are.
TitleMatchExact(srcs, title) == \E s \in srcs : s.title = title

TitleMatch(srcs, title) ==
    \E s \in srcs : \/ s.title = title
                    \/ Trim(ToLowerCase(s.title)) = Trim(ToLowerCase(title))

UrlMatch(srcs, url) ==
    \E s \in srcs : s.url.scheme # "none" /\ NormalizeUrl(s.url) = NormalizeUrl(url)

TextTitleMatch(srcs, title) ==
    \E s \in srcs : \/ s.title = title
                    \/ /\ Includes(title, "(Part")
                       /\ StartsWith(s.title, Trim(BeforePart(title)))

\* fetched is FALSE when getNotebook threw: the catch returns false
CheckDuplicate(fetched, srcs, item) ==
    IF ~fetched THEN FALSE
    ELSE IF item.title # <<>> /\ TitleMatch(srcs, item.title) THEN TRUE
    ELSE IF item.type \in {"youtube", "page"}
         THEN item.url.scheme # "none" /\ UrlMatch(srcs, item.url)
    ELSE IF item.type \in {"note", "file", "selection"}
         THEN item.title # <<>> /\ TextTitleMatch(srcs, item.title)
    ELSE FALSE

\* ------------------------------------------------------------------------
\* UploadQueue.processQueue and processItem
\* ------------------------------------------------------------------------
RunIds == 1..MaxRuns

ItemIds == 1..MaxItems

\* pc: where the invocation stands; pending, idx: pendingItems and the
\* position of the for loop; op, chunk, n: the add-source operation in
\* hand, the part it submits and the number of parts (0: not in parts).
\* snap (history): the ids of pendingItems, kept after the return;
\* late (history, kept when several items are drawn): while this
\* invocation was at work another call of processQueue returned at the
\* isProcessing guard.
IdleRun == [pc |-> "idle", pending |-> <<>>, idx |-> 0, op |-> "", chunk |-> 0,
            n |-> 0, snap |-> <<>>, late |-> FALSE]

Active(r) == runs[r].pc \notin {"idle", "returned"}

\* the lowest run slot not used yet
FreeRun(r) == runs[r].pc = "idle" /\ \A k \in 1..(r - 1) : runs[k].pc # "idle"

\* processed: calls of processItem; dups: duplicate checks; adds: add-source
\* RPCs issued; chk: what the duplicate check saw; lastAdd: the class of the
\* last add-source result; anyBenign: some add-source result was benign
\* same: the notebook held a source of the same title at the check
NoHist == [processed |-> 0, dups |-> 0, adds |-> 0, chk |-> "none", same |-> FALSE,
           lastAdd |-> "none", anyBenign |-> FALSE]

\* Variant of IsBusy: the guard is missing.
NeverBusy(flag) == FALSE

\* the guard of processQueue: if (this.isProcessing) return
IsBusy(flag) == flag

RECURSIVE Reverse(_)
Reverse(q) == IF q = <<>> THEN <<>> ELSE Reverse(Tail(q)) \o <<Head(q)>>

\* Variant of PendingItems: newest first.
PendingItemsNewestFirst(q) == Reverse(SelectSeq(q, LAMBDA it : it.status = "pending"))

\* state.uploadQueue.filter((item) => item.status === 'pending')
PendingItems(q) == SelectSeq(q, LAMBDA it : it.status = "pending")

\* item.notebookId || useStore.getState().selectedNotebookId
ResolveNotebook(item, sel) ==
    IF item.notebookId # NoNotebook THEN item.notebookId ELSE sel

\* a rejection whose reason is no Error: the event a FileReader hands to
\* its onerror
ReaderEvent == [msg |-> "ProgressEvent", code |-> NoCode]

\* error instanceof Error ? error.message : 'Unknown error'
StoredError(e) == IF e = ReaderEvent THEN Err("Unknown error") ELSE e

\* the catch of processQueue, for every item of ids
FailItems(q, ids, e) ==
    [i \in DOMAIN q |->
        IF q[i].id \in ids THEN Merge(q[i], [status |-> "error", error |-> StoredError(e)])
        ELSE q[i]]

\* item.url && !item.url.startsWith('chrome://') && !...('chrome-extension://')
UsableUrl(url) == url.scheme \notin {"none", "chrome", "chrome-extension"}

\* the message matches /RPC returned error code: (\d+)/ with a listed code
IsNormalCodeError(e) == e.code # NoCode /\ e.code \in QueueNormalErrorCodes

\* the classes of an add-source RPC result the properties speak of
Classify(rpc) ==
    IF ~rpc.ok THEN "fail"
    ELSE IF FirstCode(rpc.markers) = NoCode THEN "clean"
    ELSE IF FirstCode(rpc.markers) \in BenignCodes THEN "benign"
    ELSE "fatal"

\* the results an RPC of the queue may have
QueueRpcResults == {RpcFail("RPC call failed: 500"), RpcOk(<<>>), RpcOk(<<412>>), RpcOk(<<999>>)}

RECURSIVE IdSeq(_, _, _)
IdSeq(pending, from, to) ==
    IF from > to THEN <<>> ELSE <<pending[from].id>> \o IdSeq(pending, from + 1, to)

\* The for loop of processQueue at index idx, up to its next await: past
\* the last item the run resets isProcessing and returns; else processItem
\* is called for the item.  Without a notebook it throws 'No notebook
\* selected' at once, and processItem being async the rejection reaches
\* the catch of processQueue only when 'await this.processItem(item)' has
\* yielded (pc "reject"): until then the item is pending.  With a notebook
\* processItem calls checkDuplicate, which awaits getNotebook.  q, h are
\* the queue and the history so far, flag the value isProcessing has if
\* the run goes on.
Loop(r, pending, idx, q, h, flag) ==
    /\ uploadQueue' = q
    /\ IF idx > Len(pending)
       THEN /\ runs' = [runs EXCEPT ![r] = [IdleRun EXCEPT !.pc = "returned",
                                                            !.snap = IdSeq(pending, 1, Len(pending))]]
            /\ isProcessing' = FALSE
            /\ hist' = h
            /\ started' = started
       ELSE LET item == pending[idx]
                ready == ResolveNotebook(item, selectedNotebookId) # NoNotebook
            IN  /\ runs' = [runs EXCEPT ![r] =
                               [@ EXCEPT !.pc = IF ready THEN "dup" ELSE "reject",
                                         !.pending = pending, !.idx = idx,
                                         !.op = IF ready THEN "" ELSE "No notebook selected",
                                         !.chunk = 0, !.n = 0,
                                         !.snap = IdSeq(pending, 1, Len(pending))]]
                /\ isProcessing' = flag
                /\ hist' = [h EXCEPT ![item.id] =
                               [@ EXCEPT !.processed = @ + 1,
                                         !.dups = IF ready THEN @ + 1 ELSE @]]
                /\ started' = started \o <<item.id>>

\* processQueue() called with the queue being q: it returns at once when
\* a run is in progress, and else becomes the run of the next free slot
ProcessQueueCall(q) ==
    IF IsBusy(isProcessing)
    THEN /\ runs' = [r \in RunIds |->
                       IF Active(r) /\ ~wide THEN [runs[r] EXCEPT !.late = TRUE]
                       ELSE runs[r]]
         /\ uploadQueue' = q
         /\ UNCHANGED <<isProcessing, hist, started>>
    ELSE \E r \in RunIds : FreeRun(r) /\ Loop(r, PendingItems(q), 1, q, hist, TRUE)

\* the item a run is working on
Current(r) == runs[r].pending[runs[r].idx]

\* what the duplicate check saw of the item's title, in the words of the
\* specification: equal up to letter case and surrounding whitespace
SameTitle(t1, t2) == Trim(ToLowerCase(t1)) = Trim(ToLowerCase(t2))

HasSameTitle(srcs, item) == \E s \in srcs : SameTitle(s.title, item.title)

\* the end of processItem's try block: status 'done', then processQueue
\* awaits the delay between items
Finish(r, item, q, h) ==
    /\ uploadQueue' = UpdateQueueItem(q, item.id, [status |-> "done"])
    /\ runs' = [runs EXCEPT ![r].pc = "delay"]
    /\ hist' = h
    /\ UNCHANGED <<isProcessing, started>>

\* Variant of Throw: the catch of processQueue records the error and
\* leaves the loop.
ThrowLeavesLoop(r, item, q, h, e) ==
    IF IsNormalCodeError(e)
    THEN Finish(r, item, q, h)
    ELSE /\ uploadQueue' = FailItems(q, {item.id}, e)
         /\ runs' = [runs EXCEPT ![r] = [IdleRun EXCEPT !.pc = "returned",
                                                         !.snap = runs[r].snap]]
         /\ isProcessing' = FALSE
         /\ hist' = h
         /\ UNCHANGED started

\* an error thrown inside processItem's try block: the catch turns an
\* allow-listed RPC code into 'done'; every other error reaches the catch
\* of processQueue, which records it and goes on with the next item
Throw(r, item, q, h, e) ==
    IF IsNormalCodeError(e)
    THEN Finish(r, item, q, h)
    ELSE Loop(r, runs[r].pending, runs[r].idx + 1, FailItems(q, {item.id}, e), h,
              isProcessing)

\* the switch of processItem, up to its first await: for a text over
\* CHUNK_SIZE of a page or a note that is await import('@/lib/text-splitter')
BodyStart(item) ==
    CASE item.type = "page" ->
            IF UsableUrl(item.url) THEN [next |-> "add", op |-> "addSource", n |-> 0]
            ELSE IF item.content = "large"
                 THEN [next |-> "import", op |-> "addTextSource", n |-> item.parts]
            ELSE IF item.content = "small"
                 THEN [next |-> "add", op |-> "addTextSource", n |-> 0]
            ELSE [next |-> "throw", op |-> "Page URL or content not found", n |-> 0]
      [] item.type = "selection" -> [next |-> "parse", op |-> "", n |-> 0]
      [] item.type = "youtube" -> [next |-> "add", op |-> "addSource", n |-> 0]
      [] item.type = "file" ->
            IF item.file = "none" THEN [next |-> "throw", op |-> "File not found", n |-> 0]
            ELSE IF item.file = "binary"
                 THEN [next |-> "add", op |-> "addFileSource", n |-> 0]
            ELSE [next |-> "procfile", op |-> "", n |-> 0]
      [] item.type = "note" ->
            IF item.content = "large"
            THEN [next |-> "import", op |-> "addTextSource", n |-> item.parts]
            ELSE [next |-> "add", op |-> "addTextSource", n |-> 0]

\* an add-source call is issued: chunked (n > 0) or whole
IssueAdd(r, item, q, h, op, n) ==
    /\ uploadQueue' = IF n > 0
                      THEN UpdateQueueItem(q, item.id, [chunks |-> n, currentChunk |-> 0])
                      ELSE q
    /\ runs' = [runs EXCEPT ![r] = [@ EXCEPT !.pc = "add", !.op = op, !.n = n,
                                             !.chunk = IF n > 0 THEN 1 ELSE 0]]
    /\ hist' = h
    /\ UNCHANGED <<isProcessing, started>>

Body(r, item, q, h) ==
    LET start == BodyStart(item)
    IN  CASE start.next = "throw" ->
                 /\ uploadQueue' = q
                 /\ runs' = [runs EXCEPT ![r] = [@ EXCEPT !.pc = "reject", !.op = start.op]]
                 /\ hist' = h
                 /\ UNCHANGED <<isProcessing, started>>
          [] start.next = "add" -> IssueAdd(r, item, q, h, start.op, start.n)
          [] OTHER -> /\ uploadQueue' = q
                      /\ runs' = [runs EXCEPT ![r] = [@ EXCEPT !.pc = start.next,
                                                               !.op = start.op, !.n = start.n]]
                      /\ hist' = h
                      /\ UNCHANGED <<isProcessing, started>>

\* the title and url an add-source call submits
SubmittedTitle(item, run) ==
    IF run.n > 0 THEN PartTitle(item.title, run.chunk, run.n)
    ELSE IF item.type = "selection" THEN SelectedTextTitle
    ELSE item.title

SubmittedUrl(item, run) == IF run.op = "addSource" THEN item.url ELSE NoUrl

\* the add-source operation of the run, applied to the RPC result
AddOutcome(op, rpc) ==
    CASE op = "addSource" -> AddSource("url", FALSE, rpc)
      [] op = "addTextSource" -> AddTextSource(rpc)
      [] op = "addFileSource" -> AddFileSource(rpc)

\* processItem after an add-source call returned normally
AfterAdd(r, item, q, h) ==
    LET run == runs[r]
        q1 == IF run.n > 0 THEN UpdateQueueItem(q, item.id, [currentChunk |-> run.chunk])
              ELSE q
    IN  IF run.op # "addTextSource" THEN Finish(r, item, q1, h)
        ELSE IF item.type = "page" /\ run.n > 0
        THEN IF run.chunk < run.n
             THEN /\ uploadQueue' = q1
                  /\ runs' = [runs EXCEPT ![r].pc = "chunkdelay"]
                  /\ hist' = h
                  /\ UNCHANGED <<isProcessing, started>>
             ELSE Finish(r, item, q1, h)
        ELSE /\ uploadQueue' = q1
             /\ runs' = [runs EXCEPT ![r].pc = "wait"]
             /\ hist' = h
             /\ UNCHANGED <<isProcessing, started>>

\* ------------------------------------------------------------------------
\* Actions of the upload queue
\* ------------------------------------------------------------------------
\* new TextSplitter(CHUNK_SIZE).splitText(text) of a text over CHUNK_SIZE
LargeChunks == SplitText(Text(LargeTextLen, <<>>), CHUNK_SIZE, DefaultChunkOverlap)

\* the number of parts of the item's text, when that is over CHUNK_SIZE
Parts(shape, w) ==
    IF IsLarge(shape)
    THEN {Len(LargeChunks)}
    ELSE {0}

\* UploadQueue.addAndProcess(item), the item of one of the shapes
AddAndProcessOf(shapes) ==
    /\ nextId <= ItemLimit(wide)
    /\ \E shape \in shapes :
       \E title \in TitlesOf(shape, wide), parts \in Parts(shape, wide) :
          LET item == NewItem(nextId, shape, title, parts, selectedNotebookId)
              q1 == AddToQueueOp(uploadQueue, item)
          IN  IF ~isProcessing
              THEN ProcessQueueCall(q1)
              ELSE /\ uploadQueue' = q1
                   /\ UNCHANGED <<isProcessing, runs, hist, started>>
    /\ nextId' = nextId + 1
    /\ UNCHANGED <<selectedNotebookId, wide>>
    /\ UNCHANGED <<tokenVars, tabVars, addVars, moreVars>>

\* UploadQueue.addAndProcess(item)
AddAndProcess == AddAndProcessOf(Shapes(wide))

\* useStore.addToQueue(item), as the playlist and channel handlers call it
AddToQueue ==
    /\ nextId <= ItemLimit(wide)
    /\ \E shape \in Shapes(wide) :
       \E title \in TitlesOf(shape, wide), parts \in Parts(shape, wide) :
          uploadQueue' = AddToQueueOp(uploadQueue,
                             NewItem(nextId, shape, title, parts, selectedNotebookId))
    /\ nextId' = nextId + 1
    /\ UNCHANGED <<selectedNotebookId, isProcessing, runs, hist, started, wide>>
    /\ UNCHANGED <<tokenVars, tabVars, addVars, moreVars>>

\* UploadQueue.processQueue()
ProcessQueue ==
    /\ ProcessQueueCall(uploadQueue)
    /\ UNCHANGED <<selectedNotebookId, nextId, wide>>
    /\ UNCHANGED <<tokenVars, tabVars, addVars, moreVars>>

\* checkDuplicate's getNotebook settles
DupResult(r) ==
    /\ runs[r].pc = "dup"
    /\ \E fetched \in BOOLEAN, srcs \in Sources(wide) :
          LET item == Current(r)
              h1 == IF wide
                    THEN [hist EXCEPT ![item.id] =
                            [@ EXCEPT !.chk = IF fetched THEN "fetched" ELSE "failed",
                                      !.same = HasSameTitle(srcs, item)]]
                    ELSE hist
          IN  IF CheckDuplicate(fetched, srcs, item)
              THEN /\ uploadQueue' = UpdateQueueItem(uploadQueue, item.id,
                          [status |-> "error",
                           error |-> Err("Source already exists in notebook")])
                   /\ runs' = [runs EXCEPT ![r].pc = "delay"]
                   /\ hist' = h1
                   /\ UNCHANGED <<isProcessing, started>>
              ELSE Body(r, item,
                        UpdateQueueItem(uploadQueue, item.id, [status |-> "processing"]), h1)
    /\ UNCHANGED <<selectedNotebookId, nextId, wide>>
    /\ UNCHANGED <<tokenVars, tabVars, addVars, moreVars>>

\* processItem threw, before its duplicate check ('No notebook selected')
\* or in its switch with the status 'processing' set: the rejection
\* reaches the catch blocks
Reject(r) ==
    /\ runs[r].pc = "reject"
    /\ Throw(r, Current(r), uploadQueue, hist, Err(runs[r].op))
    /\ UNCHANGED <<selectedNotebookId, nextId, wide>>
    /\ UNCHANGED <<tokenVars, tabVars, addVars, moreVars>>

\* what chrome.scripting.executeScript rejects with: a refusal of the page
\* (its message holds 'Cannot access'), or another error of the browser
ScriptErrors ==
    { Err("Cannot access contents of the page"), Err("The tab was closed") }

\* error instanceof Error && error.message.includes('Cannot access')
IsCannotAccess(e) == e = Err("Cannot access contents of the page")

\* the catch block of parseSelection: a refusal gets the message of the
\* extension, every other error is thrown again as it is
ParseCatch(e) ==
    IF IsCannotAccess(e)
    THEN Err("Cannot access this page. Please try a different page or check permissions.")
    ELSE e

\* what ContentParser.parseSelection throws.  Before its try block: no
\* active tab (tabs.query resolves with no tab, and tab.id is a TypeError),
\* a tab without id, a chrome:// page.  Through its catch block: the
\* script gives no result, or executeScript rejects
ParseErrors ==
    { Err("Cannot read properties of undefined (reading 'id')"),
      Err("No active tab found"),
      Err("Cannot parse this page. Please open a regular web page.") }
    \cup { ParseCatch(e) : e \in {Err("Failed to get selection from page")}
                                  \cup ScriptErrors }

\* what processFile throws: the FileReader of a text file fails, the text
\* of a PDF cannot be extracted, or the extension of the file is none of
\* txt, md, markdown, pdf and docx
ProcFileErrors ==
    { ReaderEvent, Err("Failed to extract text from PDF:"),
      Err("Unsupported file type:") }

\* ContentParser.parseSelection settles
ParseResult(r) ==
    /\ runs[r].pc = "parse"
    /\ \/ IssueAdd(r, Current(r), uploadQueue, hist, "addTextSource", 0)
       \/ \E e \in ParseErrors : Throw(r, Current(r), uploadQueue, hist, e)
    /\ UNCHANGED <<selectedNotebookId, nextId, wide>>
    /\ UNCHANGED <<tokenVars, tabVars, addVars, moreVars>>

\* import('@/lib/text-splitter') settles: the text is split, the item gets
\* its chunks and currentChunk 0, and the first part is submitted; or the
\* module could not be fetched and the rejection reaches the catch blocks
ImportDone(r) ==
    /\ runs[r].pc = "import"
    /\ \/ IssueAdd(r, Current(r), uploadQueue, hist, runs[r].op, runs[r].n)
       \/ Throw(r, Current(r), uploadQueue, hist,
                Err("Failed to fetch dynamically imported module"))
    /\ UNCHANGED <<selectedNotebookId, nextId, wide>>
    /\ UNCHANGED <<tokenVars, tabVars, addVars, moreVars>>

\* FileProcessor.processFile settles
ProcFileResult(r) ==
    /\ runs[r].pc = "procfile"
    /\ LET item == Current(r)
       IN  CASE item.file = "text" -> IssueAdd(r, item, uploadQueue, hist, "addTextSource", 0)
             [] item.file = "textLarge" ->
                    IssueAdd(r, item, uploadQueue, hist, "addTextSource", item.parts)
             [] OTHER -> \E e \in ProcFileErrors : Throw(r, item, uploadQueue, hist, e)
    /\ UNCHANGED <<selectedNotebookId, nextId, wide>>
    /\ UNCHANGED <<tokenVars, tabVars, addVars, moreVars>>

\* the RPC of an add-source call settles
AddResult(r) ==
    /\ runs[r].pc = "add"
    /\ \E rpc \in QueueRpcResults :
          LET item == Current(r)
              out == AddOutcome(runs[r].op, rpc)
              h1 == IF wide
                    THEN [hist EXCEPT ![item.id] =
                            [@ EXCEPT !.adds = @ + 1, !.lastAdd = Classify(rpc),
                                      !.anyBenign = @ \/ Classify(rpc) = "benign"]]
                    ELSE hist
          IN  IF out.threw
              THEN IF item.type = "youtube" /\ IsNormalCodeError(out.err)
                   THEN Finish(r, item, uploadQueue, h1)
                   ELSE Throw(r, item, uploadQueue, h1, out.err)
              ELSE AfterAdd(r, item, uploadQueue, h1)
    /\ UNCHANGED <<selectedNotebookId, nextId, wide>>
    /\ UNCHANGED <<tokenVars, tabVars, addVars, moreVars>>

\* waitForTextSource returns (it catches every error of its getNotebook)
WaitResult(r) ==
    /\ runs[r].pc = "wait"
    /\ IF runs[r].n > 0 /\ runs[r].chunk < runs[r].n
       THEN /\ runs' = [runs EXCEPT ![r].pc = "chunkdelay"]
            /\ UNCHANGED <<uploadQueue, isProcessing, hist, started>>
       ELSE Finish(r, Current(r), uploadQueue, hist)
    /\ UNCHANGED <<selectedNotebookId, nextId, wide>>
    /\ UNCHANGED <<tokenVars, tabVars, addVars, moreVars>>

\* the 2 s pause between chunks ends: the next part is submitted
ChunkDelay(r) ==
    /\ runs[r].pc = "chunkdelay"
    /\ runs' = [runs EXCEPT ![r] = [@ EXCEPT !.pc = "add", !.chunk = @ + 1]]
    /\ UNCHANGED <<uploadQueue, selectedNotebookId, isProcessing, hist, started, nextId,
                   wide>>
    /\ UNCHANGED <<tokenVars, tabVars, addVars, moreVars>>

\* the QUEUE_DELAY_MS pause after an item ends: the loop goes on
Delay(r) ==
    /\ runs[r].pc = "delay"
    /\ Loop(r, runs[r].pending, runs[r].idx + 1, uploadQueue, hist, isProcessing)
    /\ UNCHANGED <<selectedNotebookId, nextId, wide>>
    /\ UNCHANGED <<tokenVars, tabVars, addVars, moreVars>>

\* useStore.removeFromQueue(id), the bin button of QueueList
RemoveFromQueue ==
    /\ \E i \in DOMAIN uploadQueue :
          uploadQueue' = RemoveFromQueueOp(uploadQueue, uploadQueue[i].id)
    /\ UNCHANGED <<selectedNotebookId, isProcessing, runs, hist, started, nextId, wide>>
    /\ UNCHANGED <<tokenVars, tabVars, addVars, moreVars>>

\* useStore.clearQueue()
ClearQueue ==
    /\ uploadQueue # <<>>
    /\ uploadQueue' = ClearQueueOp(uploadQueue)
    /\ UNCHANGED <<selectedNotebookId, isProcessing, runs, hist, started, nextId, wide>>
    /\ UNCHANGED <<tokenVars, tabVars, addVars, moreVars>>

\* useStore.setSelectedNotebookId(id), id a notebook or null
SetSelectedNotebookId ==
    /\ \E id \in {Notebook1, NoNotebook} :
          id # selectedNotebookId /\ selectedNotebookId' = id
    /\ UNCHANGED <<uploadQueue, isProcessing, runs, hist, started, nextId, wide>>
    /\ UNCHANGED <<tokenVars, tabVars, addVars, moreVars>>

\* useStore.logout(), called back by AuthService.logout: no notebook is
\* selected any more; the queue is left as it is
Logout ==
    /\ selectedNotebookId' = NoNotebook
    /\ UNCHANGED <<uploadQueue, isProcessing, runs, hist, started, nextId, wide>>
    /\ UNCHANGED <<tokenVars, tabVars, addVars, moreVars>>

QueueInit(w) ==
    /\ wide = w
    /\ uploadQueue = <<>>
    /\ selectedNotebookId \in {NoNotebook, Notebook1}
    /\ isProcessing = FALSE
    /\ runs = [r \in RunIds |-> IdleRun]
    /\ hist = [i \in ItemIds |-> NoHist]
    /\ started = <<>>
    /\ nextId = 1

\* the queue with items of the short catalogue, none of them in parts
QueueNext ==
    \/ AddAndProcess
    \/ AddToQueue
    \/ ProcessQueue
    \/ \E r \in RunIds : DupResult(r)
    \/ \E r \in RunIds : Reject(r)
    \/ \E r \in RunIds : ProcFileResult(r)
    \/ \E r \in RunIds : AddResult(r)
    \/ \E r \in RunIds : WaitResult(r)
    \/ \E r \in RunIds : Delay(r)
    \/ RemoveFromQueue
    \/ ClearQueue
    \/ SetSelectedNotebookId
    \/ Logout

\* the queue with one item of the whole catalogue, from its adding to its
\* end: the calls that add it, start runs and change the selected notebook,
\* and the steps of the runs
ItemNext ==
    \/ AddAndProcess
    \/ AddToQueue
    \/ ProcessQueue
    \/ \E r \in RunIds : DupResult(r)
    \/ \E r \in RunIds : Reject(r)
    \/ \E r \in RunIds : ImportDone(r)
    \/ \E r \in RunIds : ParseResult(r)
    \/ \E r \in RunIds : ProcFileResult(r)
    \/ \E r \in RunIds : AddResult(r)
    \/ \E r \in RunIds : WaitResult(r)
    \/ \E r \in RunIds : ChunkDelay(r)
    \/ \E r \in RunIds : Delay(r)
    \/ SetSelectedNotebookId
    \/ Logout

\* ------------------------------------------------------------------------
\* NotebookLMService.getTokens and rpc
\* ------------------------------------------------------------------------
CallerIds == 1..MaxCallers

\* this.tokens is null
NoTokens == 0

IdleCaller == [pc |-> "idle", used |-> NoTokens]

\* getTokens past its guard: the flag is set and the token page is fetched
StartFetch(c) ==
    /\ isRefreshingTokens' = TRUE
    /\ callers' = [callers EXCEPT ![c].pc = "fetch"]
    /\ fetchCount' = fetchCount + 1
    /\ UNCHANGED tokens

\* rpc builds its POST with this.tokens
StartPost(c) ==
    /\ callers' = [callers EXCEPT ![c] = [pc |-> "post", used |-> tokens]]
    /\ UNCHANGED <<tokens, isRefreshingTokens, fetchCount>>

\* rpc(rpcId, params): with tokens cached it goes on to the POST; without,
\* it calls getTokens, which waits 100 ms when a refresh is under way
Rpc(c) ==
    /\ callers[c].pc = "idle"
    /\ IF tokens # NoTokens THEN StartPost(c)
       ELSE IF isRefreshingTokens
            THEN /\ callers' = [callers EXCEPT ![c].pc = "sleep"]
                 /\ UNCHANGED <<tokens, isRefreshingTokens, fetchCount>>
            ELSE StartFetch(c)
    /\ UNCHANGED <<queueVars, tabVars, addVars, moreVars>>

\* the 100 ms wait of getTokens is over: the tokens are returned when they
\* are there; when they are not, getTokens goes on to its own fetch
SleepDone(c) ==
    /\ callers[c].pc = "sleep"
    /\ IF tokens # NoTokens THEN StartPost(c) ELSE StartFetch(c)
    /\ UNCHANGED <<queueVars, tabVars, addVars, moreVars>>

\* the fetch of the token page settles: with both tokens found they are
\* stored; every failure is rethrown as 'Please login to NotebookLM first';
\* the finally block resets the flag
FetchDone(c) ==
    /\ callers[c].pc = "fetch"
    /\ \E found \in BOOLEAN :
          IF found
          THEN /\ tokens' = c
               /\ callers' = [callers EXCEPT ![c] = [pc |-> "post", used |-> c]]
          ELSE /\ callers' = [callers EXCEPT ![c].pc = "failed"]
               /\ UNCHANGED tokens
    /\ isRefreshingTokens' = FALSE
    /\ UNCHANGED <<fetchCount, queueVars, tabVars, addVars, moreVars>>

\* the POST settles: the response text is returned, or 'RPC call failed'
\* is thrown when the response is not ok
PostDone(c) ==
    /\ callers[c].pc = "post"
    /\ \E ok \in BOOLEAN :
          callers' = [callers EXCEPT ![c].pc = IF ok THEN "returned" ELSE "failed"]
    /\ UNCHANGED <<tokens, isRefreshingTokens, fetchCount, queueVars, tabVars, addVars, moreVars>>

TokenInit ==
    /\ tokens = NoTokens
    /\ isRefreshingTokens = FALSE
    /\ callers = [c \in CallerIds |-> IdleCaller]
    /\ fetchCount = 0

TokenNext ==
    \/ \E c \in CallerIds : Rpc(c)
    \/ \E c \in CallerIds : SleepDone(c)
    \/ \E c \in CallerIds : FetchDone(c)
    \/ \E c \in CallerIds : PostDone(c)

\* ------------------------------------------------------------------------
\* DOMExtractor.extractDataFromBackgroundTab and fetchImageViaBackgroundTab
\* ------------------------------------------------------------------------
ProcIds == 1..MaxProcs

TabIds == 1..MaxTabs

\* newTabId undefined, tabId null
NoTab == 0

\* fn: "extract" or "image"; pc: the await the call is at; tabId: newTabId
\* (tabId); polls: iterations of the poll loop in hand; result: "data",
\* "null" or "throw"
IdleProc == [fn |-> "", pc |-> "idle", tabId |-> NoTab, polls |-> 0, result |-> "none"]

\* Variant of Finally: the tab is removed on the way out with data only.
FinallyAfterData(proc, result) ==
    IF proc.tabId # NoTab /\ result = "data"
    THEN [proc EXCEPT !.pc = "remove", !.result = result]
    ELSE [proc EXCEPT !.pc = "exit", !.result = result]

\* the finally block: if (newTabId) await chrome.tabs.remove(newTabId)
Finally(proc, result) ==
    IF proc.tabId # NoTab
    THEN [proc EXCEPT !.pc = "remove", !.result = result]
    ELSE [proc EXCEPT !.pc = "exit", !.result = result]

\* the function leaves its try block with result
Leave(p, result) ==
    LET next == Finally(procs[p], result)
    IN  /\ procs' = [procs EXCEPT ![p] = next]
        /\ removed' = IF next.pc = "remove" THEN removed \cup {next.tabId} ELSE removed
        /\ UNCHANGED tabs

Goto(p, pc) ==
    /\ procs' = [procs EXCEPT ![p] = [@ EXCEPT !.pc = pc, !.polls = 0]]
    /\ UNCHANGED <<tabs, removed>>

\* chrome.scripting.executeScript can yield a result in an open tab only
CanRun(p) == tabs[procs[p].tabId] = "open"

CallExtract(p) ==
    /\ procs[p].pc = "idle"
    /\ procs' = [procs EXCEPT ![p] = [IdleProc EXCEPT !.fn = "extract", !.pc = "create"]]
    /\ UNCHANGED <<tabs, removed, queueVars, tokenVars, addVars, moreVars>>

CallImage(p) ==
    /\ procs[p].pc = "idle"
    /\ procs' = [procs EXCEPT ![p] = [IdleProc EXCEPT !.fn = "image", !.pc = "create"]]
    /\ UNCHANGED <<tabs, removed, queueVars, tokenVars, addVars, moreVars>>

\* chrome.tabs.create settles: with a tab (the browser opens it and gives
\* it an id), with a result that has no id (no tab is taken to be open), or
\* with a rejection.  extractDataFromBackgroundTab turns the last two into
\* null; fetchImageViaBackgroundTab returns null without id and lets the
\* rejection through.
CreateDone(p) ==
    /\ procs[p].pc = "create"
    /\ \/ \E t \in TabIds :
             /\ tabs[t] = "unused" /\ \A u \in 1..(t - 1) : tabs[u] # "unused"
             /\ tabs' = [tabs EXCEPT ![t] = "open"]
             /\ procs' = [procs EXCEPT ![p] =
                            [@ EXCEPT !.tabId = t,
                                      !.pc = IF procs[p].fn = "extract" THEN "load"
                                              ELSE "poll"]]
             /\ UNCHANGED removed
       \/ Leave(p, "null")
       \/ Leave(p, IF procs[p].fn = "extract" THEN "null" ELSE "throw")
    /\ UNCHANGED <<queueVars, tokenVars, addVars, moreVars>>

\* the wait for the tab to load ends (status 'complete' and 3 s, or maxWaitMs)
LoadDone(p) ==
    /\ procs[p].pc = "load"
    /\ Goto(p, "open")
    /\ UNCHANGED <<queueVars, tokenVars, addVars, moreVars>>

\* the script that opens the artifact viewer settles; a rejection is caught
OpenDone(p) ==
    /\ procs[p].pc = "open"
    /\ Goto(p, "poll1")
    /\ UNCHANGED <<queueVars, tokenVars, addVars, moreVars>>

\* One turn of a poll loop at pc, which goes on at `after` once its
\* deadline has passed.  The first test of the deadline passes; the
\* deadline has passed after MaxPolls iterations at the latest.
PollLoop(p, pc, after) ==
    /\ procs[p].pc = pc
    /\ \/ /\ procs[p].polls >= 1
          /\ Goto(p, after)
       \/ /\ procs[p].polls < MaxPolls
          /\ \/ CanRun(p) /\ Leave(p, "data")
             \/ /\ procs' = [procs EXCEPT ![p].polls = @ + 1]
                /\ UNCHANGED <<tabs, removed>>

\* Strategy 1: all frames, for 15 s
Poll1(p) ==
    /\ PollLoop(p, "poll1", "iframe")
    /\ UNCHANGED <<queueVars, tokenVars, addVars, moreVars>>

\* Strategy 2: the script that reads the iframe src settles
IframeDone(p) ==
    /\ procs[p].pc = "iframe"
    /\ \/ CanRun(p) /\ Goto(p, "update")
       \/ Goto(p, "dom")
    /\ UNCHANGED <<queueVars, tokenVars, addVars, moreVars>>

\* chrome.tabs.update settles; a rejection is caught
UpdateDone(p) ==
    /\ procs[p].pc = "update"
    /\ \/ CanRun(p) /\ Goto(p, "load2")
       \/ Goto(p, "dom")
    /\ UNCHANGED <<queueVars, tokenVars, addVars, moreVars>>

\* the wait for the iframe page ends ('complete' and 2 s, or 12 s)
Load2Done(p) ==
    /\ procs[p].pc = "load2"
    /\ Goto(p, "poll2")
    /\ UNCHANGED <<queueVars, tokenVars, addVars, moreVars>>

\* Strategy 2: the main frame, for 8 s
Poll2(p) ==
    /\ PollLoop(p, "poll2", "dom")
    /\ UNCHANGED <<queueVars, tokenVars, addVars, moreVars>>

\* Strategy 3: the DOM fallback script settles; a rejection is caught
DomDone(p) ==
    /\ procs[p].pc = "dom"
    /\ \/ CanRun(p) /\ Leave(p, "data")
       \/ Leave(p, "null")
    /\ UNCHANGED <<queueVars, tokenVars, addVars, moreVars>>

\* fetchImageViaBackgroundTab: one turn of its loop (extractImageFromTab
\* never throws); past timeoutMs it throws 'Tab load timeout'
ImagePoll(p) ==
    /\ procs[p].pc = "poll"
    /\ \/ /\ procs[p].polls >= 1
          /\ Leave(p, "throw")
       \/ /\ procs[p].polls < MaxPolls
          /\ \/ CanRun(p) /\ Leave(p, "data")
             \/ /\ procs' = [procs EXCEPT ![p].polls = @ + 1]
                /\ UNCHANGED <<tabs, removed>>
    /\ UNCHANGED <<queueVars, tokenVars, addVars, moreVars>>

\* chrome.tabs.remove settles: it closes an open tab; it rejects for a tab
\* that is there no more, which the finally block ignores
RemoveDone(p) ==
    /\ procs[p].pc = "remove"
    /\ tabs' = [tabs EXCEPT ![procs[p].tabId] = "closed"]
    /\ procs' = [procs EXCEPT ![p].pc = "exit"]
    /\ UNCHANGED <<removed, queueVars, tokenVars, addVars, moreVars>>

\* the user, or the page itself, closes a tab
TabCloses ==
    /\ \E t \in TabIds : tabs[t] = "open" /\ tabs' = [tabs EXCEPT ![t] = "closed"]
    /\ UNCHANGED <<procs, removed, queueVars, tokenVars, addVars, moreVars>>

TabInit ==
    /\ procs = [p \in ProcIds |-> IdleProc]
    /\ tabs = [t \in TabIds |-> "unused"]
    /\ removed = {}

TabNext ==
    \/ \E p \in ProcIds : CallExtract(p)
    \/ \E p \in ProcIds : CallImage(p)
    \/ \E p \in ProcIds : CreateDone(p)
    \/ \E p \in ProcIds : LoadDone(p)
    \/ \E p \in ProcIds : OpenDone(p)
    \/ \E p \in ProcIds : Poll1(p)
    \/ \E p \in ProcIds : IframeDone(p)
    \/ \E p \in ProcIds : UpdateDone(p)
    \/ \E p \in ProcIds : Load2Done(p)
    \/ \E p \in ProcIds : Poll2(p)
    \/ \E p \in ProcIds : DomDone(p)
    \/ \E p \in ProcIds : ImagePoll(p)
    \/ \E p \in ProcIds : RemoveDone(p)
    \/ TabCloses

\* ------------------------------------------------------------------------
\* One call of addSource, addTextSource or addFileSource
\* ------------------------------------------------------------------------
\* the codes a response may carry: the listed ones and one that is not
Codes == BenignCodes \cup {999}

\* the markers of a response: at most MaxMarkers, each with a code or, not
\* being of the full form, without (NoCode)
MarkerSeqs == UNION {[1..n -> Codes \cup {NoCode}] : n \in 0..MaxMarkers}

AddRpcResults == {RpcFail("RPC call failed: 500")} \cup {RpcOk(m) : m \in MarkerSeqs}

Call(op, ctype, blank, rpc) == [op |-> op, ctype |-> ctype, blank |-> blank, rpc |-> rpc]

NoCall == Call("", "", FALSE, RpcOk(<<>>))

NoOutcome == [threw |-> FALSE, err |-> NoError, rpcId |-> "-", warned |-> FALSE]

InvokeAddSource ==
    /\ addCall.op = "addSource" /\ addOut = NoOutcome
    /\ addOut' = AddSource(addCall.ctype, addCall.blank, addCall.rpc)
    /\ UNCHANGED <<addCall, queueVars, tokenVars, tabVars, moreVars>>

InvokeAddTextSource ==
    /\ addCall.op = "addTextSource" /\ addOut = NoOutcome
    /\ addOut' = AddTextSource(addCall.rpc)
    /\ UNCHANGED <<addCall, queueVars, tokenVars, tabVars, moreVars>>

InvokeAddFileSource ==
    /\ addCall.op = "addFileSource" /\ addOut = NoOutcome
    /\ addOut' = AddFileSource(addCall.rpc)
    /\ UNCHANGED <<addCall, queueVars, tokenVars, tabVars, moreVars>>

\* the calls: addSource with each content type, with and without content,
\* addTextSource and addFileSource, over the RPC results
AddInit ==
    /\ \/ \E ctype \in {"text", "url", "file", "audio"}, blank \in BOOLEAN,
              rpc \in AddRpcResults :
             addCall = Call("addSource", ctype, blank, rpc)
       \/ \E op \in {"addTextSource", "addFileSource"}, rpc \in AddRpcResults :
             addCall = Call(op, "text", FALSE, rpc)
    /\ addOut = NoOutcome

AddNext == InvokeAddSource \/ InvokeAddTextSource \/ InvokeAddFileSource

\* ------------------------------------------------------------------------
\* One call of TextSplitter.splitText
\* ------------------------------------------------------------------------
TextChars == {"a", "b", " ", ".", "\n"}

\* every text of at most MaxTextLen characters
ShortTexts ==
    UNION {{Text(n, m) : m \in [0..(n - 1) -> TextChars]} : n \in 0..MaxTextLen}

\* the positions around the two ends of the first chunk's search window
MarkSpots(chunkSize) ==
    {chunkSize - LookAround - 1, chunkSize - LookAround, chunkSize - LookAround + 1,
     chunkSize + LookAround - 2, chunkSize + LookAround - 1, chunkSize + LookAround}

\* texts longer than the search window, with break characters at its ends
MidTexts == {Text(MidTextLen, m) : m \in [MarkSpots(MidChunkSize) -> TextChars \ {"b"}]}

\* the note of scenario A and variants of it with break characters near the
\* end of the first chunk
LongTexts ==
    { Text(NoteLength, <<>>),
      Text(NoteLength, [p \in {CHUNK_SIZE - 1} |-> " "]),
      Text(NoteLength, [p \in {CHUNK_SIZE + 100, CHUNK_SIZE + 101} |-> "\n"]),
      Text(NoteLength, [p \in {CHUNK_SIZE - 150, CHUNK_SIZE - 149, CHUNK_SIZE + 150}
                           |-> IF p = CHUNK_SIZE - 150 THEN "." ELSE " "]) }

SplitCall(text, chunkSize, chunkOverlap) ==
    [text |-> text, chunkSize |-> chunkSize, chunkOverlap |-> chunkOverlap]

NoSplitCall == SplitCall(Text(0, <<>>), 0, 0)

SplitResult(chunks) == [called |-> TRUE, chunks |-> chunks]

NotSplit == [called |-> FALSE, chunks |-> <<>>]

\* new TextSplitter(chunkSize, chunkOverlap).splitText(text)
CallSplitText ==
    /\ splitOut = NotSplit
    /\ splitCall # NoSplitCall
    /\ splitOut' = SplitResult(SplitText(splitCall.text, splitCall.chunkSize,
                                         splitCall.chunkOverlap))
    /\ UNCHANGED splitCall
    /\ UNCHANGED <<coreVars, exceptSplit>>

\* the calls: every short text under every small splitter, the texts
\* longer than the search window, and the note texts under the upload
\* queue's splitter
SplitInit ==
    /\ \/ \E t \in ShortTexts, s \in 1..MaxChunkSize, o \in 0..MaxOverlap :
             splitCall = SplitCall(t, s, o)
       \/ \E t \in MidTexts : splitCall = SplitCall(t, MidChunkSize, MidOverlap)
       \/ \E t \in LongTexts : splitCall = SplitCall(t, CHUNK_SIZE, DefaultChunkOverlap)
    /\ splitOut = NotSplit

SplitRests == splitCall = NoSplitCall /\ splitOut = NotSplit

SplitNext == CallSplitText

\* ------------------------------------------------------------------------
\* NotebookLMService.loadMultipleSourceContents (part_002)
\* ------------------------------------------------------------------------
\* the source ids handed in: ExportService.loadSourceContents passes the
\* ids of the sources with the empty ones filtered out
SourceIds == 1..MaxIds

\* an id that is falsy (the empty string)
EmptyId == 0

IdLists == {[i \in 1..k |-> i] : k \in 0..MaxIds}

\* the workers: at most one per id
WorkerIds == 1..MaxIds

\* Math.min(concurrency, sourceIds.length)
WorkerCount(concurrency, n) == Min2(concurrency, n)

\* Variant of GoesOn: a rejected load ends the worker.
GoesOnUnlessRejected(outcome) == outcome # "threw"

\* the try/catch inside the worker's loop: the loop goes on after every
\* outcome of loadSourceContent
GoesOn(outcome) == TRUE

\* pc: "ready", "running" (awaiting Promise.all) or "returned"; queue: the
\* local copy of the ids; workers: per worker "none", "loading" with the id
\* in hand, or "finished"; results: the ids the result map has a content
\* for.  attempts, failed (history): the calls of loadSourceContent per id,
\* and the ids whose load gave nothing or was rejected.
LoadCall(ids, concurrency) ==
    [pc |-> "ready", ids |-> ids, concurrency |-> concurrency, queue |-> <<>>,
     workers |-> [w \in WorkerIds |-> [pc |-> "none", id |-> EmptyId]],
     results |-> {}, attempts |-> [i \in SourceIds |-> 0], failed |-> {}]

LoadCalls == {LoadCall(ids, c) : ids \in IdLists, c \in 1..MaxWorkers}

NoLoadCall == [LoadCall(<<>>, 0) EXCEPT !.pc = "none"]

\* one worker at the head of its while loop, given the state l of the call
WorkerTurn(l, w) ==
    IF Len(l.queue) > 0
    THEN LET id == Head(l.queue)
             l1 == [l EXCEPT !.queue = Tail(l.queue)]
         IN  IF id = EmptyId
             THEN [l1 EXCEPT !.workers[w] = [pc |-> "finished", id |-> EmptyId]]
             ELSE [l1 EXCEPT !.workers[w] = [pc |-> "loading", id |-> id],
                             !.attempts[id] = @ + 1]
    ELSE [l EXCEPT !.workers[w] = [pc |-> "finished", id |-> EmptyId]]

\* the workers 1..n are started one after the other; each runs up to its
\* first await
RECURSIVE StartWorkers(_, _, _)
StartWorkers(l, w, n) ==
    IF w > n THEN l ELSE StartWorkers(WorkerTurn(l, w), w + 1, n)

\* loadMultipleSourceContents(notebookId, sourceIds, concurrency), up to
\* await Promise.all(workers)
CallLoadMultiple ==
    /\ loader.pc = "ready"
    /\ loader' = StartWorkers([loader EXCEPT !.pc = "running", !.queue = loader.ids],
                              1, WorkerCount(loader.concurrency, Len(loader.ids)))
    /\ UNCHANGED <<coreVars, exceptLoader>>

\* loadSourceContent settles for worker w: the content is stored, a null
\* is skipped, a rejection is logged; then the worker's loop goes on
LoadSettles(w) ==
    /\ loader.pc = "running"
    /\ loader.workers[w].pc = "loading"
    /\ \E outcome \in {"content", "null", "threw"} :
          LET id == loader.workers[w].id
              l1 == [loader EXCEPT
                        !.results = IF outcome = "content" THEN @ \cup {id} ELSE @,
                        !.failed = IF outcome = "content" THEN @ ELSE @ \cup {id}]
          IN  loader' = IF GoesOn(outcome) THEN WorkerTurn(l1, w)
                        ELSE [l1 EXCEPT !.workers[w] = [pc |-> "finished", id |-> EmptyId]]
    /\ UNCHANGED <<coreVars, exceptLoader>>

\* Promise.all(workers) resolves: every worker has ended
LoadReturns ==
    /\ loader.pc = "running"
    /\ \A w \in WorkerIds : loader.workers[w].pc # "loading"
    /\ loader' = [loader EXCEPT !.pc = "returned"]
    /\ UNCHANGED <<coreVars, exceptLoader>>

LoadInit == loader \in LoadCalls

LoadRests == loader = NoLoadCall

LoadNext ==
    \/ CallLoadMultiple
    \/ \E w \in WorkerIds : LoadSettles(w)
    \/ LoadReturns

\* ------------------------------------------------------------------------
\* ExportDialog.loadContent and ExportService.loadFlashcardsAsync: the
\* pool of background-tab extractions.  The dialog's effect calls
\* loadContent on mount and again whenever its notebookId changes, after
\* resetting loadingRef; a call made while an earlier one still awaits its
\* extractions runs beside it, each call with a pool of its own.
\* ------------------------------------------------------------------------
\* const CONCURRENCY = 2
CONCURRENCY == 2

CallIds == 1..MaxLoadCalls

\* the calls of extractDataFromBackgroundTab that can be in progress:
\* worker w of call k makes its calls as procs[PoolProc(k, w)] of the
\* background-tab model
PoolProcIds == 1..(MaxLoadCalls * CONCURRENCY)

PoolProc(k, w) == (k - 1) * CONCURRENCY + w

\* One call of loadContent.  pc: "none" (not made), "content" (awaiting
\* loadNotebookContent), "running" (inside loadFlashcardsAsync, awaiting
\* Promise.all) or "returned"; n: the length of interactiveArtifacts;
\* cursor: the shared cursor; alive: the workers inside their while loop
PoolCall(n) == [pc |-> "running", n |-> n, cursor |-> 0, alive |-> {}]

NoPoolCall == [PoolCall(0) EXCEPT !.pc = "none"]

ContentCall == [PoolCall(0) EXCEPT !.pc = "content"]

ReturnedCall(c) == [c EXCEPT !.pc = "returned"]

PoolWorkers(n) == 1..Min2(CONCURRENCY, n)

\* a call of extractDataFromBackgroundTab up to its first await
ExtractCall == [IdleProc EXCEPT !.fn = "extract", !.pc = "create"]

\* the artifacts the calls of loadFlashcardsAsync have been given
RECURSIVE ArtifactsUpTo(_)
ArtifactsUpTo(k) == IF k = 0 THEN 0 ELSE ArtifactsUpTo(k - 1) + dialog.calls[k].n

ArtifactsGiven == ArtifactsUpTo(MaxLoadCalls)

\* loadContent up to its first await, as call k, with loadingRef.current
\* at ref: it returns at once when the flag is set, and otherwise sets it
\* and awaits loadNotebookContent
LoadContent(ref, k) ==
    IF ref
    THEN dialog' = [dialog EXCEPT !.loadingRef = ref]
    ELSE dialog' = [loadingRef |-> TRUE,
                    calls |-> [dialog.calls EXCEPT ![k] = ContentCall]]

\* the effect of the mounted dialog runs again, for another notebookId:
\* loadingRef.current = false; loadContent()
NotebookChanges ==
    /\ dialog.calls[1].pc # "none"
    /\ \E k \in CallIds :
          /\ dialog.calls[k].pc = "none"
          /\ \A j \in 1..(k - 1) : dialog.calls[j].pc # "none"
          /\ LoadContent(FALSE, k)
    /\ UNCHANGED <<coreVars, exceptPool>>

\* loadNotebookContent of call k rejects, or resolves with no interactive
\* artifact (hasFlashcardArtifacts is false): loadContent ends, and its
\* finally block clears loadingRef
ContentEnds(k) ==
    /\ dialog.calls[k].pc = "content"
    /\ dialog' = [loadingRef |-> FALSE,
                  calls |-> [dialog.calls EXCEPT ![k] = ReturnedCall(@)]]
    /\ UNCHANGED <<coreVars, exceptPool>>

\* loadNotebookContent of call k resolves with n interactive artifacts and
\* loadFlashcardsAsync is called with them.  Its workers are started one
\* after the other: each takes the artifact at the cursor (idx = cursor++)
\* and calls extractDataFromBackgroundTab
PoolStart(k) ==
    /\ dialog.calls[k].pc = "content"
    /\ \E n \in 1..(MaxArtifacts - ArtifactsGiven) :
          LET ws == PoolWorkers(n)
          IN  /\ dialog' = [dialog EXCEPT !.calls[k] =
                              [PoolCall(n) EXCEPT !.cursor = Cardinality(ws),
                                                  !.alive = ws]]
              /\ procs' = [p \in DOMAIN procs |->
                             IF \E w \in ws : p = PoolProc(k, w)
                             THEN ExtractCall ELSE procs[p]]
    /\ UNCHANGED <<tabs, removed>>
    /\ UNCHANGED <<queueVars, tokenVars, addVars, exceptPool>>

\* the call of worker w of call k has returned (it returns null on every
\* failure, and the worker would catch a rejection): the results are
\* pushed and the while loop goes on with the artifact at the cursor, or
\* ends
WorkerLoop(k, w) ==
    /\ dialog.calls[k].pc = "running"
    /\ w \in dialog.calls[k].alive
    /\ procs[PoolProc(k, w)].pc = "exit"
    /\ IF dialog.calls[k].cursor < dialog.calls[k].n
       THEN /\ dialog' = [dialog EXCEPT !.calls[k].cursor = @ + 1]
            /\ procs' = [procs EXCEPT ![PoolProc(k, w)] = ExtractCall]
       ELSE /\ dialog' = [dialog EXCEPT !.calls[k].alive = @ \ {w}]
            /\ UNCHANGED procs
    /\ UNCHANGED <<tabs, removed>>
    /\ UNCHANGED <<queueVars, tokenVars, addVars, exceptPool>>

\* Promise.all(workers) of call k resolves: loadFlashcardsAsync returns,
\* and the finally block of loadContent clears loadingRef
PoolReturns(k) ==
    /\ dialog.calls[k].pc = "running"
    /\ dialog.calls[k].alive = {}
    /\ dialog' = [loadingRef |-> FALSE,
                  calls |-> [dialog.calls EXCEPT ![k] = ReturnedCall(@)]]
    /\ UNCHANGED <<coreVars, exceptPool>>

\* the dialog is mounted and its effect has run: loadContent has been
\* called once
PoolInit ==
    dialog = [loadingRef |-> TRUE,
              calls |-> [k \in CallIds |-> IF k = 1 THEN ContentCall
                                           ELSE NoPoolCall]]

PoolRests == dialog = [loadingRef |-> FALSE, calls |-> [k \in CallIds |-> NoPoolCall]]

\* the background-tab model with a call for every worker of every pool
PoolTabInit ==
    /\ procs = [p \in PoolProcIds |-> IdleProc]
    /\ tabs = [t \in TabIds |-> "unused"]
    /\ removed = {}

PoolNext ==
    \/ NotebookChanges
    \/ \E k \in CallIds : ContentEnds(k)
    \/ \E k \in CallIds : PoolStart(k)
    \/ \E k \in CallIds, w \in 1..CONCURRENCY : WorkerLoop(k, w)
    \/ \E k \in CallIds : PoolReturns(k)
    \/ \E p \in PoolProcIds : CreateDone(p)
    \/ \E p \in PoolProcIds : LoadDone(p)
    \/ \E p \in PoolProcIds : OpenDone(p)
    \/ \E p \in PoolProcIds : Poll1(p)
    \/ \E p \in PoolProcIds : IframeDone(p)
    \/ \E p \in PoolProcIds : UpdateDone(p)
    \/ \E p \in PoolProcIds : Load2Done(p)
    \/ \E p \in PoolProcIds : Poll2(p)
    \/ \E p \in PoolProcIds : DomDone(p)
    \/ \E p \in PoolProcIds : RemoveDone(p)
    \/ TabCloses

\* the two worker pools, one of them at work
PoolsNext == LoadNext \/ PoolNext

\* ------------------------------------------------------------------------
\* NotebookLMService.getNotebookExtendedContent (part_002)
\* ------------------------------------------------------------------------
\* the RPC ids of its sections: notes and mind maps, chat history, the
\* artifact list, and the content of one artifact
ExtRpcs == <<"cFji9", "hPTbtc", "gArtLc">>

ContentRpc == "v9rmvd"

\* pc: "ready", the RPC id awaited, "returned" or "threw"; issued
\* (history): the RPC ids in the order of the calls; outcomes (history):
\* what the try blocks of the sections 1 to 3 came to; notes .. artifacts:
\* the lists of the result, by the kind of their entries; todo: the
\* artifacts of artifactsNeedingContent still to fetch; got (history): the
\* kinds of entries the sections 1 to 3 have pushed
ExtCall ==
    [pc |-> "ready", issued |-> <<>>, outcomes |-> <<>>, notes |-> {}, mindmaps |-> {},
     chatHistory |-> {}, artifacts |-> {}, todo |-> 0, got |-> {}]

NoExtCall == [ExtCall EXCEPT !.pc = "none"]

\* Variant of Caught: the error of a section leaves the function.
Rethrown(next) == "threw"

\* catch (e) { console.log(...) }: the function goes on behind the section
Caught(next) == next

\* what a section's try block can come to: the RPC is rejected, the
\* response cannot be parsed (JSON.parse throws before anything is pushed),
\* or the entries found are pushed (possibly none)
SectionOutcomes == {"rejected", "unparsable", "parsed"}

Failed(outcome) == outcome # "parsed"

\* the call of the next RPC
Issue(e, rpcId) == [e EXCEPT !.pc = rpcId, !.issued = Append(@, rpcId)]

\* the end of a section: the next RPC is called if the function goes on
EndSection(e, outcome, nextRpc) ==
    LET e1 == [e EXCEPT !.outcomes = Append(@, outcome)]
        next == IF Failed(outcome) THEN Caught(nextRpc) ELSE nextRpc
    IN  IF next = nextRpc THEN Issue(e1, nextRpc) ELSE [e1 EXCEPT !.pc = next]

\* section 4 at the head of its for loop
ContentLoop(e) ==
    IF e.todo > 0 THEN Issue([e EXCEPT !.todo = @ - 1], ContentRpc)
    ELSE [e EXCEPT !.pc = "returned"]

\* getNotebookExtendedContent(notebookId), up to the first await
CallExtended ==
    /\ ext.pc = "ready"
    /\ ext' = Issue(ext, ExtRpcs[1])
    /\ UNCHANGED <<coreVars, exceptExt>>

\* section 1: rpc('cFji9') settles
NotesSettle ==
    /\ ext.pc = ExtRpcs[1]
    /\ \E outcome \in SectionOutcomes, found \in SUBSET {"note", "mindmap"} :
          /\ Failed(outcome) => found = {}
          /\ ext' = EndSection([ext EXCEPT !.notes = @ \cup (found \cap {"note"}),
                                           !.mindmaps = @ \cup (found \cap {"mindmap"}),
                                           !.got = @ \cup found],
                               outcome, ExtRpcs[2])
    /\ UNCHANGED <<coreVars, exceptExt>>

\* section 2: rpc('hPTbtc') settles
ChatSettle ==
    /\ ext.pc = ExtRpcs[2]
    /\ \E outcome \in SectionOutcomes, found \in SUBSET {"message"} :
          /\ Failed(outcome) => found = {}
          /\ ext' = EndSection([ext EXCEPT !.chatHistory = @ \cup found,
                                           !.got = @ \cup found],
                               outcome, ExtRpcs[3])
    /\ UNCHANGED <<coreVars, exceptExt>>

\* section 3: rpc('gArtLc') settles; section 4 then takes the reports,
\* quizzes and tables among the artifacts found
ArtifactsSettle ==
    /\ ext.pc = ExtRpcs[3]
    /\ \E outcome \in SectionOutcomes, found \in SUBSET {"artifact"},
          n \in 0..MaxReports :
          /\ Failed(outcome) => found = {}
          /\ found = {} => n = 0
          /\ LET e1 == [ext EXCEPT !.artifacts = @ \cup found,
                                   !.got = @ \cup found,
                                   !.todo = n,
                                   !.outcomes = Append(@, outcome)]
                 next == IF Failed(outcome) THEN Caught("content") ELSE "content"
             IN  ext' = IF next = "content" THEN ContentLoop(e1)
                        ELSE [e1 EXCEPT !.pc = next]
    /\ UNCHANGED <<coreVars, exceptExt>>

\* section 4: getArtifactInteractiveHtml settles (it returns null on every
\* failure); the text of a report (typeCode 2) is pushed to the notes
ContentSettle ==
    /\ ext.pc = ContentRpc
    /\ \E html \in BOOLEAN, typeCode \in {2, 4} :
          ext' = ContentLoop(IF html /\ typeCode = 2
                             THEN [ext EXCEPT !.notes = @ \cup {"report"}]
                             ELSE ext)
    /\ UNCHANGED <<coreVars, exceptExt>>

ExtInit == ext = ExtCall

ExtRests == ext = NoExtCall

ExtNext == CallExtended \/ NotesSettle \/ ChatSettle \/ ArtifactsSettle \/ ContentSettle

\* ------------------------------------------------------------------------
\* The DOM extraction functions of DOMExtractor (part_001), each as the
\* awaits it makes in order
\* ------------------------------------------------------------------------
\* One await.  api: "findTab" (findNotebookLMTab, which awaits
\* chrome.tabs.query and hands on its rejection), "query"
\* (chrome.tabs.query), "click" (a script whose result is not looked at),
\* "script" (a script whose result decides) or "sleep"; guarded: the await
\* stands inside the try block of the function
Await(api, guarded) == [api |-> api, guarded |-> guarded]

\* const tab = await this.findNotebookLMTab(), before the try block
TabFirst == Await("findTab", FALSE)

\* const results = await chrome.scripting.executeScript(...), in the try
\* block
ScriptInTry == Await("script", TRUE)

Sleep == Await("sleep", TRUE)

DomFunctions ==
    { "extractChatHistory", "extractArtifactsList", "extractSlideImages",
      "extractInfographicImage", "fetchImageInNotebookTabContext",
      "openArtifactById", "extractArtifactAppData", "extractArtifactsWithIds",
      "openArtifactByIndex" }

\* the value the function declares for "nothing found"
EmptyValue(fn) ==
    CASE fn \in {"extractChatHistory", "extractArtifactsList", "extractSlideImages",
                 "extractArtifactsWithIds"} -> "[]"
      [] fn \in {"extractInfographicImage", "fetchImageInNotebookTabContext",
                 "extractArtifactAppData"} -> "null"
      [] fn \in {"openArtifactById", "openArtifactByIndex"} -> "false"

\* extractArtifactAppData is a poll loop: each turn queries the tabs, runs
\* its script in every tab and sleeps
IsPoll(fn) == fn = "extractArtifactAppData"

DomAwaits(fn) ==
    CASE fn = "extractChatHistory" ->
            <<TabFirst, Await("click", TRUE), Sleep, ScriptInTry>>
      [] fn \in {"extractArtifactsList", "extractSlideImages", "extractInfographicImage",
                 "extractArtifactsWithIds"} ->
            <<TabFirst, ScriptInTry>>
      [] fn = "fetchImageInNotebookTabContext" ->
            <<Await("findTab", TRUE), ScriptInTry>>
      [] fn = "openArtifactById" ->
            <<TabFirst, Await("query", FALSE), ScriptInTry, Sleep,
              Await("query", TRUE), Sleep>>
      [] fn = "openArtifactByIndex" ->
            <<TabFirst, ScriptInTry, Sleep>>
      [] fn = "extractArtifactAppData" ->
            <<Await("query", FALSE), ScriptInTry, Sleep>>

\* fn: the function called; at: the index of the await in hand (0: none);
\* polls: turns of the poll loop done; left: tabs of this turn whose
\* script has not run yet (openArtifactById: tabCountBefore); calls: the
\* browser calls made, in order;
\* failure: what went wrong; out: "value", the empty value, or "threw"
DomCall(fn) ==
    [fn |-> fn, at |-> 1, polls |-> 0, left |-> 0, calls |-> <<>>,
     failure |-> "none", out |-> "none"]

NoDomCall ==
    [fn |-> "", at |-> 0, polls |-> 0, left |-> 0, calls |-> <<>>,
     failure |-> "none", out |-> "none"]

DomAt(d) == DomAwaits(d.fn)[d.at]

DomAwaiting(api) == dom.at > 0 /\ DomAt(dom).api = api

Called(d, api) == [d EXCEPT !.calls = Append(@, api)]

\* return <the empty value>, after failure
ReturnEmpty(d, failure) ==
    [d EXCEPT !.at = 0, !.failure = failure, !.out = EmptyValue(d.fn)]

\* a rejection outside every try block leaves the function as its own
\* rejection
Thrown(d, failure) == [d EXCEPT !.at = 0, !.failure = failure, !.out = "threw"]

\* a rejected await: caught by the catch block when it stands in the try
\* block
Rejected(d, failure) ==
    IF DomAt(d).guarded THEN ReturnEmpty(d, failure) ELSE Thrown(d, failure)

\* the await in hand is done: on to the next one; after the last one the
\* function returns what it found, and the poll loop begins its next turn
GoOn(d) ==
    IF d.at < Len(DomAwaits(d.fn))
    THEN [d EXCEPT !.at = @ + 1]
    ELSE IF IsPoll(d.fn)
         THEN [d EXCEPT !.at = 1, !.polls = @ + 1]
         ELSE [d EXCEPT !.at = 0, !.out = "value"]

\* the function is called
CallDom ==
    /\ dom = NoDomCall
    /\ \E fn \in DomFunctions : dom' = DomCall(fn)
    /\ UNCHANGED <<coreVars, exceptDom>>

\* while (Date.now() - startTime < maxWaitMs) fails: the first test
\* passes, and after MaxPolls turns the time is over
DeadlinePassed ==
    /\ DomAwaiting("query") /\ IsPoll(dom.fn)
    /\ dom.polls >= 1
    /\ dom' = ReturnEmpty(dom, "timeout")
    /\ UNCHANGED <<coreVars, exceptDom>>

\* findNotebookLMTab settles: with a tab, with null (no NotebookLM tab),
\* or as the rejection of its chrome.tabs.query
FindTabSettles ==
    /\ DomAwaiting("findTab")
    /\ \E outcome \in {"tab", "null", "rejected"} :
          LET d == Called(dom, "tabs.query")
          IN  dom' = CASE outcome = "tab" -> GoOn(d)
                       [] outcome = "null" -> ReturnEmpty(d, "no tab")
                       [] outcome = "rejected" -> Rejected(d, "query rejected")
    /\ UNCHANGED <<coreVars, exceptDom>>

\* chrome.tabs.query settles: with n tabs, or rejected.  In the poll loop
\* the script then runs in each of the n tabs; openArtifactById keeps the
\* number of tabs (tabCountBefore) and, at its second query, sleeps once
\* more when there are more tabs than before, and returns true.
QuerySettles ==
    /\ DomAwaiting("query")
    /\ IsPoll(dom.fn) => dom.polls < MaxPolls
    /\ \E n \in 0..MaxTabs, rejected \in BOOLEAN :
          LET d == Called(dom, "tabs.query")
          IN  dom' = IF rejected
                     THEN Rejected(d, "query rejected")
                     ELSE IF IsPoll(d.fn)
                          THEN [GoOn(d) EXCEPT !.left = n]
                          ELSE IF d.at = 2
                               THEN [GoOn(d) EXCEPT !.left = n]
                               ELSE IF n > d.left
                                    THEN GoOn(d)
                                    ELSE [d EXCEPT !.at = 0, !.out = "value"]
    /\ UNCHANGED <<coreVars, exceptDom>>

\* the for loop of the poll turn has no tab left: on to the sleep
NoTabLeft ==
    /\ DomAwaiting("script") /\ IsPoll(dom.fn)
    /\ dom.left = 0
    /\ dom' = GoOn(dom)
    /\ UNCHANGED <<coreVars, exceptDom>>

\* the script whose result is not looked at settles
ClickSettles ==
    /\ DomAwaiting("click")
    /\ \E rejected \in BOOLEAN :
          LET d == Called(dom, "executeScript")
          IN  dom' = IF rejected THEN Rejected(d, "script rejected") ELSE GoOn(d)
    /\ UNCHANGED <<coreVars, exceptDom>>

\* the script settles: with what it looked for, with nothing, or rejected.
\* The poll loop returns what it finds at once, and takes nothing and a
\* rejection alike as "not in this tab".
ScriptSettles ==
    /\ DomAwaiting("script")
    /\ IsPoll(dom.fn) => dom.left > 0
    /\ \E outcome \in {"found", "nothing", "rejected"} :
          LET d == Called(dom, "executeScript")
          IN  dom' = IF IsPoll(d.fn)
                     THEN IF outcome = "found"
                          THEN [d EXCEPT !.at = 0, !.out = "value"]
                          ELSE [d EXCEPT !.left = @ - 1]
                     ELSE CASE outcome = "found" -> GoOn(d)
                            [] outcome = "nothing" -> ReturnEmpty(d, "nothing found")
                            [] outcome = "rejected" -> Rejected(d, "script rejected")
    /\ UNCHANGED <<coreVars, exceptDom>>

\* await new Promise((r) => setTimeout(r, ...)) is over
DomSleepDone ==
    /\ DomAwaiting("sleep")
    /\ dom' = GoOn(dom)
    /\ UNCHANGED <<coreVars, exceptDom>>

DomInit == dom = NoDomCall

DomRests == dom = NoDomCall

DomNext ==
    \/ CallDom
    \/ DeadlinePassed
    \/ FindTabSettles
    \/ QuerySettles
    \/ NoTabLeft
    \/ ClickSettles
    \/ ScriptSettles
    \/ DomSleepDone

\* ------------------------------------------------------------------------
\* The waits of ensureNotebookOpen, extractDataFromBackgroundTab and
\* fetchImageViaBackgroundTab, with the time they take (in ms since the
\* wait began)
\* ------------------------------------------------------------------------
\* maxWaitMs: number = 25000, and the 20000 loadFlashcardsAsync passes
DefaultMaxWaitMs == 25000

CallerMaxWaitMs == 20000

\* setTimeout(resolve, 3000) once the tab is 'complete'
LoadSettleMs == 3000

\* while (Date.now() - pollStart < 15000) ... setTimeout(r, 1500)
Poll1Ms == 15000

Poll1IntervalMs == 1500

\* setTimeout(resolve, 12000), and setTimeout(resolve, 2000) once 'complete'
IframeLoadMs == 12000

IframeSettleMs == 2000

\* while (Date.now() - poll2Start < 8000) ... setTimeout(r, 1000)
Poll2Ms == 8000

Poll2IntervalMs == 1000

\* timeoutMs: number = 15000 ... setTimeout(r, 300)
ImageTimeoutMs == 15000

ImageIntervalMs == 300

\* ensureNotebookOpen: setTimeout(..., 15000), and
\* setTimeout(() => resolve(tab), 2000) once 'complete'
NotebookLoadMs == 15000

NotebookSettleMs == 2000

\* "notebookLoad": the wait of ensureNotebookOpen for the navigated tab;
\* "load", "iframeLoad": the waits of extractDataFromBackgroundTab for the
\* tab to load; "poll1", "poll2": the poll loops of strategies 1 and 2;
\* "image": the loop of fetchImageViaBackgroundTab
WaitKinds == {"notebookLoad", "load", "iframeLoad", "poll1", "poll2", "image"}

IsLoadWait(kind) == kind \in {"notebookLoad", "load", "iframeLoad"}

\* the deadlines the wait may be given
Deadlines(kind) ==
    CASE kind = "notebookLoad" -> {NotebookLoadMs}
      [] kind = "load" -> {CallerMaxWaitMs, DefaultMaxWaitMs}
      [] kind = "iframeLoad" -> {IframeLoadMs}
      [] kind = "poll1" -> {Poll1Ms}
      [] kind = "poll2" -> {Poll2Ms}
      [] kind = "image" -> {ImageTimeoutMs}

\* the delay after 'complete'
SettleMs(kind) ==
    CASE kind = "notebookLoad" -> NotebookSettleMs
      [] kind = "load" -> LoadSettleMs
      [] kind = "iframeLoad" -> IframeSettleMs

\* what the timeout callback of a load wait does with the listener: the
\* callbacks of ensureNotebookOpen and of the first wait of
\* extractDataFromBackgroundTab call chrome.tabs.onUpdated.removeListener,
\* the timer of the iframe wait is setTimeout(resolve, 12000)
TimeoutRemovesListener(kind) == kind # "iframeLoad"

\* the sleep that ends a turn of the loop
IntervalMs(kind) ==
    CASE kind = "poll1" -> Poll1IntervalMs
      [] kind = "poll2" -> Poll2IntervalMs
      [] kind = "image" -> ImageIntervalMs

\* script calls per turn: extractImageFromTab runs in the ISOLATED world
\* and, having found nothing, in the MAIN world
ScriptsPerTurn(kind) == IF kind = "image" THEN 2 ELSE 1

\* the time a script call may take to settle
ScriptTimes == {0, MaxScriptMs \div 2, MaxScriptMs}

\* the moments the tab may report 'complete': at once, half way, and just
\* before the deadline
CompleteTimes(deadline) == {0, deadline \div 2, deadline - 1}

\* kind, deadline: the wait; pc: "timer" (timer and listener are set),
\* "settle" (the tab is 'complete', the delay runs), "get" (the timer of
\* ensureNotebookOpen fired, chrome.tabs.get is awaited), "test" (the loop
\* tests its deadline), "script" (a script call is awaited), "sleep",
\* "done"; elapsed: Date.now() minus the start; scripts: script calls of
\* this turn; out: "went on" (a load wait is over), "data", "not found"
\* or "threw"; listener: the wait's chrome.tabs.onUpdated listener is
\* registered
Wait(kind, deadline) ==
    [kind |-> kind, deadline |-> deadline,
     pc |-> IF IsLoadWait(kind) THEN "timer" ELSE "test",
     elapsed |-> 0, scripts |-> 0, out |-> "none", listener |-> IsLoadWait(kind)]

NoWait == [kind |-> "", deadline |-> 0, pc |-> "idle", elapsed |-> 0, scripts |-> 0,
           out |-> "none", listener |-> FALSE]

WaitOver(w, out) == [w EXCEPT !.pc = "done", !.out = out]

\* the loop is left past its deadline: extractDataFromBackgroundTab goes
\* on to its next strategy; fetchImageViaBackgroundTab throws 'Tab load
\* timeout'
OnDeadline(w) == WaitOver(w, IF w.kind = "image" THEN "threw" ELSE "not found")

StartWait ==
    /\ wait = NoWait
    /\ \E kind \in WaitKinds : \E deadline \in Deadlines(kind) :
          wait' = Wait(kind, deadline)
    /\ UNCHANGED <<coreVars, exceptWait>>

\* the timer of the load wait fires: the wait is over, in
\* ensureNotebookOpen once chrome.tabs.get has settled
TimerFires ==
    /\ wait.pc = "timer"
    /\ LET w == [wait EXCEPT !.elapsed = wait.deadline,
                             !.listener = @ /\ ~TimeoutRemovesListener(wait.kind)]
       IN  wait' = IF wait.kind = "notebookLoad"
                   THEN [w EXCEPT !.pc = "get"]
                   ELSE WaitOver(w, "went on")
    /\ UNCHANGED <<coreVars, exceptWait>>

\* chrome.tabs.get(tabId).then(resolve).catch(() => resolve(null))
TabGetSettles ==
    /\ wait.pc = "get"
    /\ \E t \in ScriptTimes :
          wait' = WaitOver([wait EXCEPT !.elapsed = @ + t], "went on")
    /\ UNCHANGED <<coreVars, exceptWait>>

\* the tab reports 'complete' before the timer fires: the listener removes
\* itself, clears the timer and sets the delay
TabCompletes ==
    /\ wait.pc = "timer"
    /\ \E t \in CompleteTimes(wait.deadline) :
          wait' = [wait EXCEPT !.pc = "settle", !.elapsed = t, !.listener = FALSE]
    /\ UNCHANGED <<coreVars, exceptWait>>

\* the tab reports 'complete' after the wait is over, with the listener
\* still registered: the listener removes itself (its clearTimeout and its
\* resolve have no effect any more)
TabCompletesLate ==
    /\ wait.pc = "done"
    /\ wait.listener
    /\ wait' = [wait EXCEPT !.listener = FALSE]
    /\ UNCHANGED <<coreVars, exceptWait>>

\* the delay after 'complete' is over: the wait is over
SettleDone ==
    /\ wait.pc = "settle"
    /\ wait' = WaitOver([wait EXCEPT !.elapsed = @ + SettleMs(wait.kind)], "went on")
    /\ UNCHANGED <<coreVars, exceptWait>>

\* while (Date.now() - start < deadline)
TestDeadline ==
    /\ wait.pc = "test"
    /\ wait' = IF wait.elapsed < wait.deadline
               THEN [wait EXCEPT !.pc = "script", !.scripts = 0]
               ELSE OnDeadline(wait)
    /\ UNCHANGED <<coreVars, exceptWait>>

\* the script call settles after some time (nothing in the code limits
\* it): with the data, which is returned, or without (no data, or a
\* rejection, which is caught)
PollScriptSettles ==
    /\ wait.pc = "script"
    /\ \E t \in ScriptTimes, found \in BOOLEAN :
          LET w == [wait EXCEPT !.elapsed = @ + t, !.scripts = @ + 1]
          IN  wait' = IF found
                      THEN WaitOver(w, "data")
                      ELSE IF w.scripts < ScriptsPerTurn(w.kind)
                           THEN w
                           ELSE [w EXCEPT !.pc = "sleep"]
    /\ UNCHANGED <<coreVars, exceptWait>>

\* the sleep of the turn is over
PollSleepDone ==
    /\ wait.pc = "sleep"
    /\ wait' = [wait EXCEPT !.pc = "test", !.elapsed = @ + IntervalMs(wait.kind)]
    /\ UNCHANGED <<coreVars, exceptWait>>

WaitInit == wait = NoWait

WaitRests == wait = NoWait

WaitNext ==
    \/ StartWait
    \/ TimerFires
    \/ TabGetSettles
    \/ TabCompletes
    \/ TabCompletesLate
    \/ SettleDone
    \/ TestDeadline
    \/ PollScriptSettles
    \/ PollSleepDone

\* ------------------------------------------------------------------------
\* NotebookLMService.deleteSources (part_002)
\* ------------------------------------------------------------------------
\* const BATCH_SIZE = 20
BATCH_SIZE == 20

DeleteRpc == "tGMBJ"

\* the lists of source ids handed in: up to MaxDeleteIds ids, ascending,
\* descending, or with ids that come again
DeleteLists ==
    UNION { { [k \in 1..n |-> k], [k \in 1..n |-> n + 1 - k], [k \in 1..n |-> (k % 3) + 1] }
            : n \in 0..MaxDeleteIds }

\* Array.prototype.slice(from, to), for 0 <= from <= to
Slice(list, from, to) == SubSeq(list, from + 1, Min2(to, Len(list)))

\* Variant of NextBatch: the loop steps one id too far.
NextBatchSkips(i) == i + BATCH_SIZE + 1

\* i += BATCH_SIZE
NextBatch(i) == i + BATCH_SIZE

\* pc: "rpc" (the RPC of the batch at i is awaited), "returned", "threw";
\* rpcs: the payloads sent, as the lists of their ids
DeleteCall(sourceIds) ==
    [pc |-> "rpc", sourceIds |-> sourceIds, i |-> 0, deletedCount |-> 0, rpcs |-> <<>>,
     success |-> FALSE]

NoDeleteCall ==
    [pc |-> "idle", sourceIds |-> <<>>, i |-> 0, deletedCount |-> 0, rpcs |-> <<>>,
     success |-> FALSE]

\* the loop test, and the body up to its await: the batch is cut out and
\* sent; past the last id the function returns
DeleteLoop(d) ==
    IF d.i < Len(d.sourceIds)
    THEN [d EXCEPT !.pc = "rpc",
                   !.rpcs = Append(@, Slice(d.sourceIds, d.i, d.i + BATCH_SIZE))]
    ELSE [d EXCEPT !.pc = "returned", !.success = TRUE]

\* deleteSources is called: an empty list returns at once
CallDeleteSources ==
    /\ del = NoDeleteCall
    /\ \E sourceIds \in DeleteLists :
          del' = IF Len(sourceIds) = 0
                 THEN [DeleteCall(sourceIds) EXCEPT !.pc = "returned", !.success = TRUE]
                 ELSE DeleteLoop(DeleteCall(sourceIds))
    /\ UNCHANGED <<coreVars, exceptDelete>>

\* the RPC of the batch settles: the batch is counted and the loop goes
\* on; a rejection is logged and thrown again
DeleteRpcSettles ==
    /\ del.pc = "rpc"
    /\ \E ok \in BOOLEAN :
          del' = IF ok
                 THEN DeleteLoop([del EXCEPT
                                    !.deletedCount = @ + Len(del.rpcs[Len(del.rpcs)]),
                                    !.i = NextBatch(@)])
                 ELSE [del EXCEPT !.pc = "threw"]
    /\ UNCHANGED <<coreVars, exceptDelete>>

DeleteInit == del = NoDeleteCall

DeleteRests == del = NoDeleteCall

DeleteNext ==
    \/ CallDeleteSources
    \/ DeleteRpcSettles

\* ------------------------------------------------------------------------
\* NotebookLMService.loadSourceContent (part_002)
\* ------------------------------------------------------------------------
FulltextIds == 1..MaxLoads

\* the RPC ids of the primary (GET_SOURCE) and of the secondary
\* (GET_SOURCE_GUIDE) call
FulltextRpc == "hizoJc"

GuideRpc == "tr032e"

\* what an awaited rpc and the parsing of its response come to: the rpc is
\* rejected, the parser throws, the parser finds nothing, or there is
\* content
RpcOutcomes == {"rejected", "unparsable", "nothing", "content"}

\* pc: "idle", the RPC id awaited, or "returned"; rpcs: the RPC ids
\* issued, in order; primary, guide: what the two calls came to; result:
\* "fulltext", "guide" or "null"
FulltextCall ==
    [pc |-> FulltextRpc, rpcs |-> <<FulltextRpc>>, primary |-> "none", guide |-> "none",
     result |-> "none"]

NoFulltextCall ==
    [pc |-> "idle", rpcs |-> <<>>, primary |-> "none", guide |-> "none", result |-> "none"]

\* Variant of FallsBack: the guide is asked for in every case.
FallsBackAlways(outcome) == TRUE

\* if (content) return content; everything else, a rejection and an
\* exception of the parser included, goes on to the fallback
FallsBack(outcome) == outcome # "content"

\* loadSourceContent is called: the primary RPC is issued
CallLoadSourceContent(c) ==
    /\ fulltext[c] = NoFulltextCall
    /\ fulltext' = [fulltext EXCEPT ![c] = FulltextCall]
    /\ UNCHANGED <<coreVars, exceptFulltext>>

\* the primary call settles: its content is returned, or the secondary
\* RPC is issued
PrimarySettles(c) ==
    /\ fulltext[c].pc = FulltextRpc
    /\ \E outcome \in RpcOutcomes :
          fulltext' = [fulltext EXCEPT ![c] =
              IF FallsBack(outcome)
              THEN [@ EXCEPT !.pc = GuideRpc, !.rpcs = Append(@, GuideRpc),
                             !.primary = outcome]
              ELSE [@ EXCEPT !.pc = "returned", !.primary = outcome,
                             !.result = "fulltext"]]
    /\ UNCHANGED <<coreVars, exceptFulltext>>

\* the secondary call settles: the guide is returned when there is one,
\* null otherwise
GuideSettles(c) ==
    /\ fulltext[c].pc = GuideRpc
    /\ \E outcome \in RpcOutcomes :
          fulltext' = [fulltext EXCEPT ![c] =
              [@ EXCEPT !.pc = "returned", !.guide = outcome,
                        !.result = IF outcome = "content" THEN "guide" ELSE "null"]]
    /\ UNCHANGED <<coreVars, exceptFulltext>>

FulltextInit == fulltext = [c \in FulltextIds |-> NoFulltextCall]

FulltextRests == fulltext = [c \in FulltextIds |-> NoFulltextCall]

FulltextNext ==
    \/ \E c \in FulltextIds : CallLoadSourceContent(c)
    \/ \E c \in FulltextIds : PrimarySettles(c)
    \/ \E c \in FulltextIds : GuideSettles(c)

\* ------------------------------------------------------------------------
\* Scenario A: a note of NoteLength characters goes through the queue
\* ------------------------------------------------------------------------
NoteText == Text(NoteLength, <<>>)

\* processItem, case 'note': new TextSplitter(CHUNK_SIZE).splitText(content)
NoteChunks == SplitText(NoteText, CHUNK_SIZE, DefaultChunkOverlap)

NoteTitle == <<"a">>

\* UploadQueue.addAndProcess(item) for the note
AddNote ==
    /\ nextId = 1
    /\ LET item == NewItem(nextId, Shape("note", NoUrl, "large", "none"), NoteTitle,
                           Len(NoteChunks), selectedNotebookId)
           q1 == AddToQueueOp(uploadQueue, item)
       IN  IF ~isProcessing
           THEN ProcessQueueCall(q1)
           ELSE /\ uploadQueue' = q1
                /\ UNCHANGED <<isProcessing, runs, hist, started>>
    /\ nextId' = nextId + 1
    /\ UNCHANGED <<selectedNotebookId, wide>>
    /\ UNCHANGED <<tokenVars, tabVars, addVars, moreVars>>

NoteNext ==
    \/ AddNote
    \/ ProcessQueue
    \/ \E r \in RunIds : DupResult(r)
    \/ \E r \in RunIds : Reject(r)
    \/ \E r \in RunIds : ImportDone(r)
    \/ \E r \in RunIds : AddResult(r)
    \/ \E r \in RunIds : WaitResult(r)
    \/ \E r \in RunIds : ChunkDelay(r)
    \/ \E r \in RunIds : Delay(r)

\* ------------------------------------------------------------------------
\* Specifications: each one runs one part of the program, the others rest
\* ------------------------------------------------------------------------
QueueRests ==
    /\ wide = FALSE
    /\ uploadQueue = <<>>
    /\ selectedNotebookId = NoNotebook
    /\ isProcessing = FALSE
    /\ runs = [r \in RunIds |-> IdleRun]
    /\ hist = [i \in ItemIds |-> NoHist]
    /\ started = <<>>
    /\ nextId = 1

AddRests == addCall = NoCall /\ addOut = NoOutcome

LaterRests == DomRests /\ WaitRests /\ DeleteRests /\ FulltextRests

MoreRests == SplitRests /\ LoadRests /\ PoolRests /\ ExtRests /\ LaterRests

InitQueue == QueueInit(FALSE) /\ TokenInit /\ TabInit /\ AddRests /\ MoreRests

InitItem == QueueInit(TRUE) /\ TokenInit /\ TabInit /\ AddRests /\ MoreRests

InitTokens == QueueRests /\ TokenInit /\ TabInit /\ AddRests /\ MoreRests

InitTabs == QueueRests /\ TokenInit /\ TabInit /\ AddRests /\ MoreRests

InitAdd == QueueRests /\ TokenInit /\ TabInit /\ AddInit /\ MoreRests

InitSplit ==
    /\ QueueRests /\ TokenInit /\ TabInit /\ AddRests
    /\ SplitInit /\ LoadRests /\ PoolRests /\ ExtRests /\ LaterRests

InitLoader ==
    /\ QueueRests /\ TokenInit /\ TabInit /\ AddRests
    /\ SplitRests /\ LoadInit /\ PoolRests /\ ExtRests /\ LaterRests

InitPools ==
    /\ QueueRests /\ TokenInit /\ PoolTabInit /\ AddRests /\ SplitRests
    /\ ExtRests /\ LaterRests
    /\ \/ LoadInit /\ PoolRests
       \/ LoadRests /\ PoolInit

InitExt ==
    /\ QueueRests /\ TokenInit /\ TabInit /\ AddRests
    /\ SplitRests /\ LoadRests /\ PoolRests /\ ExtInit /\ LaterRests

InitNote == QueueInit(TRUE) /\ TokenInit /\ TabInit /\ AddRests /\ MoreRests

EarlierRests ==
    /\ QueueRests /\ TokenInit /\ TabInit /\ AddRests
    /\ SplitRests /\ LoadRests /\ PoolRests /\ ExtRests

InitDom == EarlierRests /\ DomInit /\ WaitRests /\ DeleteRests /\ FulltextRests

InitWaits == EarlierRests /\ DomRests /\ WaitInit /\ DeleteRests /\ FulltextRests

InitDelete == EarlierRests /\ DomRests /\ WaitRests /\ DeleteInit /\ FulltextRests

InitFulltext == EarlierRests /\ DomRests /\ WaitRests /\ DeleteRests /\ FulltextInit

\* several items from the short catalogue
SpecQueue == InitQueue /\ [][QueueNext]_vars

\* one item from the whole catalogue
SpecItem == InitItem /\ [][ItemNext]_vars

\* concurrent rpc calls and the session tokens
SpecTokens == InitTokens /\ [][TokenNext]_vars

\* concurrent extractions in background tabs
SpecTabs == InitTabs /\ [][TabNext]_vars

\* one call of an add-source operation, over every response
SpecAdd == InitAdd /\ [][AddNext]_vars

\* the note of scenario A, alone in the queue
SpecNote == InitNote /\ [][NoteNext]_vars

\* one call of loadMultipleSourceContents
SpecLoader == InitLoader /\ [][LoadNext]_vars

\* the worker pools: one call of loadMultipleSourceContents, or the export
\* dialog with its calls of loadFlashcardsAsync
SpecPools == InitPools /\ [][PoolsNext]_vars

\* one call of getNotebookExtendedContent, over the outcomes of its RPCs
SpecExt == InitExt /\ [][ExtNext]_vars

\* one call of splitText, over texts and splitters
SpecSplit == InitSplit /\ [][SplitNext]_vars

\* one call of a DOM extraction function, over what the browser answers
SpecDom == InitDom /\ [][DomNext]_vars

\* one wait of the DOM extraction engine, over what the tab does and when
SpecWaits == InitWaits /\ [][WaitNext]_vars

\* one call of deleteSources, over the ids and the outcomes of its RPCs
SpecDelete == InitDelete /\ [][DeleteNext]_vars

\* concurrent calls of loadSourceContent, over the outcomes of their RPCs
SpecFulltext == InitFulltext /\ [][FulltextNext]_vars

\* The upload queue left to itself after addAndProcess calls: nothing else
\* is called, and every step a run awaits (the settling of a request, the
\* end of a pause) is taken in the end.
RunStep(r) ==
    \/ DupResult(r)
    \/ Reject(r)
    \/ ImportDone(r)
    \/ ParseResult(r)
    \/ ProcFileResult(r)
    \/ AddResult(r)
    \/ WaitResult(r)
    \/ ChunkDelay(r)
    \/ Delay(r)

\* the items added there: the short catalogue, a selection and a note
\* over CHUNK_SIZE
UnattendedShapes ==
    ShortShapes \cup { Shape("selection", NoUrl, "none", "none"),
                       Shape("note", NoUrl, "large", "none") }

\* the items of the queue that are over CHUNK_SIZE
LargeItems(q) == {i \in DOMAIN q : q[i].content = "large" \/ q[i].file = "textLarge"}

AddUnattended ==
    AddAndProcessOf(IF Cardinality(LargeItems(uploadQueue)) < MaxLargeItems
                    THEN UnattendedShapes ELSE ShortShapes)

UnattendedNext ==
    \/ AddUnattended
    \/ \E r \in RunIds : DupResult(r)
    \/ \E r \in RunIds : Reject(r)
    \/ \E r \in RunIds : ImportDone(r)
    \/ \E r \in RunIds : ParseResult(r)
    \/ \E r \in RunIds : ProcFileResult(r)
    \/ \E r \in RunIds : AddResult(r)
    \/ \E r \in RunIds : WaitResult(r)
    \/ \E r \in RunIds : ChunkDelay(r)
    \/ \E r \in RunIds : Delay(r)

SpecUnattended ==
    /\ InitQueue
    /\ [][UnattendedNext]_vars
    /\ \A r \in RunIds : WF_vars(RunStep(r))

\* ------------------------------------------------------------------------
\* Properties of the upload queue
\* ------------------------------------------------------------------------
Terminal(st) == st \in {"done", "error"}

InQueue(id) == \E i \in DOMAIN uploadQueue : uploadQueue[i].id = id

\* the item was handed to processItem and, where it is still in the queue,
\* has status done or error
Settled(id) ==
    /\ hist[id].processed >= 1
    /\ \A i \in DOMAIN uploadQueue : uploadQueue[i].id = id => Terminal(uploadQueue[i].status)

DuplicateError == Err("Source already exists in notebook")

\* C1: one failure never halts the queue.  Every item of a run's snapshot
\* that the loop has passed was handed to processItem and is done or error,
\* and a run that has returned has passed every item of its snapshot,
\* whatever happened to the items before.
C1_FailureDoesNotHaltRun ==
    \A r \in RunIds :
        \A k \in 1..Len(runs[r].snap) :
            (runs[r].pc = "returned" \/ k < runs[r].idx) => Settled(runs[r].snap[k])

\* a run has returned whose first item failed and whose second item was
\* processed to the end
C1_Witness ==
    \E r \in RunIds :
        /\ runs[r].pc = "returned" /\ Len(runs[r].snap) >= 2
        /\ \E i, j \in DOMAIN uploadQueue :
              /\ uploadQueue[i].id = runs[r].snap[1] /\ uploadQueue[i].status = "error"
              /\ uploadQueue[i].error = Err("RPC call failed: 500")
              /\ uploadQueue[j].id = runs[r].snap[2] /\ uploadQueue[j].status = "done"

\* C2: processQueue is single-flight.  At most one invocation is past the
\* guard at a time (the busy flag is set exactly while one is), no item is
\* in the snapshot of two invocations, and no item is handed to
\* processItem twice.
C2_SingleFlight ==
    /\ Cardinality({r \in RunIds : Active(r)}) <= 1
    /\ isProcessing <=> \E r \in RunIds : Active(r)
    /\ \A r1, r2 \in RunIds :
          r1 # r2 => \A k1 \in DOMAIN runs[r1].snap, k2 \in DOMAIN runs[r2].snap :
                        runs[r1].snap[k1] # runs[r2].snap[k2]
    /\ \A id \in ItemIds : hist[id].processed <= 1
    /\ \A k1, k2 \in DOMAIN started : k1 # k2 => started[k1] # started[k2]

\* a call returned at the guard while a run was waiting for an add-source
\* call, with a pending item in the queue that the call left alone
C2_Witness ==
    /\ \E r \in RunIds : Active(r) /\ runs[r].pc = "add" /\ runs[r].late
    /\ \E i \in DOMAIN uploadQueue :
          uploadQueue[i].status = "pending" /\ hist[uploadQueue[i].id].processed = 0

\* the status of item id in queue q, "absent" when it is not there
StatusIn(q, id) ==
    IF \E i \in DOMAIN q : q[i].id = id
    THEN (CHOOSE it \in {q[i] : i \in DOMAIN q} : it.id = id).status
    ELSE "absent"

StrictSteps == {<<"pending", "processing">>, <<"processing", "done">>,
                <<"processing", "error">>}

\* C4 as stated: a status only moves pending -> processing -> done | error
\* and a done or error item keeps its status.
C4_Original ==
    [][\A id \in ItemIds :
          LET a == StatusIn(uploadQueue, id)
              b == StatusIn(uploadQueue', id)
          IN  (a # "absent" /\ b # "absent" /\ a # b) => <<a, b>> \in StrictSteps]_vars

\* C4 amended: a status moves pending -> processing -> done | error, or
\* straight pending -> error when the item is refused before its
\* processing starts (a duplicate, or no notebook selected); a done or
\* error item keeps its status.
C4_StatusSteps ==
    [][\A id \in ItemIds :
          LET a == StatusIn(uploadQueue, id)
              b == StatusIn(uploadQueue', id)
          IN  (a # "absent" /\ b # "absent" /\ a # b) =>
                 \/ <<a, b>> \in StrictSteps
                 \/ /\ <<a, b>> = <<"pending", "error">>
                    /\ \E i \in DOMAIN uploadQueue' :
                          /\ uploadQueue'[i].id = id
                          /\ uploadQueue'[i].error \in
                                {DuplicateError, Err("No notebook selected")}]_vars

\* one item went pending -> processing -> done and another one was refused
\* as a duplicate
C4_Witness ==
    \E i, j \in DOMAIN uploadQueue :
        /\ uploadQueue[i].status = "done" /\ uploadQueue[i].type = "file"
        /\ uploadQueue[j].status = "error" /\ uploadQueue[j].error = DuplicateError
        /\ uploadQueue[j].currentChunk = 0

\* C5: a run takes the items pending at its start in the order they were
\* added, one at a time.  Items are entered in increasing id (the order of
\* addToQueue), every item entered before the latest one is done or error,
\* at most one item has status processing, and a run's snapshot is in the
\* order of the queue.
C5_FifoOneAtATime ==
    /\ \A k \in 1..(Len(started) - 1) :
          started[k] < started[k + 1] /\ Settled(started[k])
    /\ Cardinality({i \in DOMAIN uploadQueue : uploadQueue[i].status = "processing"}) <= 1
    /\ \A r \in RunIds : \A k \in 1..(Len(runs[r].snap) - 1) :
          runs[r].snap[k] < runs[r].snap[k + 1]
    /\ \A r \in RunIds : Active(r) =>
          /\ runs[r].idx <= Len(started)
          /\ \A k \in 1..runs[r].idx :
                started[Len(started) - runs[r].idx + k] = runs[r].snap[k]

\* a run is working on the second item of its snapshot after the first
C5_Witness ==
    \E r \in RunIds :
        /\ Active(r) /\ runs[r].idx = 2 /\ runs[r].pc = "wait"
        /\ started = <<1, 2>>
        /\ \E i \in DOMAIN uploadQueue :
              uploadQueue[i].id = 2 /\ uploadQueue[i].status = "processing"

\* ------------------------------------------------------------------------
\* Properties of processItem, one item through every branch (SpecItem)
\* ------------------------------------------------------------------------
\* C7 as stated: an item whose title equals, up to letter case and
\* surrounding whitespace, the title of a source of the target notebook
\* ends as error "already exists" and no add-source call is made for it.
C7_Original ==
    \A i \in DOMAIN uploadQueue :
        LET item == uploadQueue[i]
        IN  (hist[item.id].chk # "none" /\ hist[item.id].same) =>
               /\ hist[item.id].adds = 0
               /\ item.status = "error" /\ item.error = DuplicateError

\* C7 amended: the same, for an item with a non-empty title whose
\* duplicate check received the notebook's source list.  (With the list
\* not received the check answers "no duplicate" and the upload goes on;
\* an empty title is not compared at all.)
C7_DuplicateTitleRefused ==
    \A i \in DOMAIN uploadQueue :
        LET item == uploadQueue[i]
        IN  (hist[item.id].chk = "fetched" /\ hist[item.id].same /\ item.title # <<>>) =>
               /\ hist[item.id].adds = 0
               /\ item.status = "error" /\ item.error = DuplicateError
               /\ \A r \in RunIds : Active(r) => runs[r].pc = "delay"

\* the item titled "a" met the source titled "A " and was refused
C7_Witness ==
    \E i \in DOMAIN uploadQueue :
        /\ uploadQueue[i].title = <<"a">>
        /\ hist[uploadQueue[i].id].chk = "fetched" /\ hist[uploadQueue[i].id].same
        /\ uploadQueue[i].status = "error" /\ uploadQueue[i].error = DuplicateError

\* C8 as stated: an item for which an add-source call reported an
\* allow-listed code ends as done, never as error.
C8_Original ==
    \A i \in DOMAIN uploadQueue :
        LET item == uploadQueue[i]
        IN  hist[item.id].anyBenign => item.status # "error"

\* C8 amended: an item whose latest add-source call reported an
\* allow-listed code is not in error, and is done once processItem has
\* ended.  (An item submitted in parts still ends as error when the call
\* of a later part fails.)
C8_BenignCodeIsDone ==
    \A i \in DOMAIN uploadQueue :
        LET item == uploadQueue[i]
        IN  hist[item.id].lastAdd = "benign" =>
               /\ item.status # "error"
               /\ (\A r \in RunIds : runs[r].pc \in {"idle", "delay", "returned"}) =>
                     item.status = "done"

\* the YouTube item's addSource call reported code 412 and the item is done
C8_Witness ==
    \E i \in DOMAIN uploadQueue :
        /\ uploadQueue[i].type = "youtube"
        /\ hist[uploadQueue[i].id].lastAdd = "benign" /\ hist[uploadQueue[i].id].adds = 1
        /\ uploadQueue[i].status = "done"

\* ------------------------------------------------------------------------
\* Properties of the session tokens (SpecTokens)
\* ------------------------------------------------------------------------
FetchesInFlight == {c \in CallerIds : callers[c].pc = "fetch"}

\* C3: rpc calls that start without cached tokens share one refresh.  At
\* most one fetch of the token page is in flight, however long it takes.
C3_OneFetchInFlight == Cardinality(FetchesInFlight) <= 1

\* ------------------------------------------------------------------------
\* Properties of the background tabs (SpecTabs)
\* ------------------------------------------------------------------------
Exited(p) == procs[p].pc = "exit"

\* C6: every tab one of the two functions opened has had chrome.tabs.remove
\* called on it and is closed when the function has exited, whatever the
\* exit (data, null, a thrown error); every tab was opened by a call, so
\* with every call over no tab is open.
C6_TabsClosedOnExit ==
    /\ \A p \in ProcIds :
          (Exited(p) /\ procs[p].tabId # NoTab) =>
              procs[p].tabId \in removed /\ tabs[procs[p].tabId] = "closed"
    /\ \A t \in TabIds : tabs[t] # "unused" => \E p \in ProcIds : procs[p].tabId = t
    /\ (\A p \in ProcIds : procs[p].pc \in {"idle", "exit"}) =>
          \A t \in TabIds : tabs[t] # "open"

\* fetchImageViaBackgroundTab threw at its deadline and
\* extractDataFromBackgroundTab returned null after its three strategies,
\* each with its tab removed
C6_Witness ==
    \E p, q \in ProcIds :
        /\ Exited(p) /\ procs[p].fn = "image" /\ procs[p].result = "throw"
        /\ Exited(q) /\ procs[q].fn = "extract" /\ procs[q].result = "null"
        /\ procs[p].tabId # NoTab /\ procs[q].tabId # NoTab
        /\ removed = {procs[p].tabId, procs[q].tabId}

\* ------------------------------------------------------------------------
\* Properties of the add-source operations (SpecAdd)
\* ------------------------------------------------------------------------
CallSettled == addOut # NoOutcome

\* the code the response reports: that of its first marker of the full form
ReportedCode == FirstCode(addCall.rpc.markers)

\* addSource received the response of its izAoDd call
AddSourceGotResponse ==
    /\ addCall.op = "addSource" /\ CallSettled /\ addCall.rpc.ok
    /\ addCall.ctype \in {"text", "url"}
    /\ ~(addCall.ctype = "text" /\ addCall.blank)

\* C9: addSource returns normally when the response it receives reports an
\* allow-listed code, and throws the error carrying the code when the
\* response reports any other code.
C9_AddSourceCodes ==
    AddSourceGotResponse =>
        /\ ReportedCode \in BenignCodes => ~addOut.threw
        /\ (ReportedCode # NoCode /\ ReportedCode \notin BenignCodes) =>
              addOut.threw /\ addOut.err = ErrCode(ReportedCode)

\* addSource threw on code 999
C9_Witness ==
    /\ addCall = Call("addSource", "url", FALSE, RpcOk(<<999>>))
    /\ addOut = Threw(ErrCode(999), "izAoDd", TRUE)

\* C10: no add-source operation returns normally when the response of its
\* RPC reports a code outside the allow-list: it throws the error carrying
\* the code.
C10_NoSilentSuccess ==
    (CallSettled /\ addOut.rpcId # "" /\ addCall.rpc.ok
       /\ ReportedCode # NoCode /\ ReportedCode \notin BenignCodes) =>
          addOut.threw /\ addOut.err = ErrCode(ReportedCode)

\* ------------------------------------------------------------------------
\* Properties of the text splitter
\* ------------------------------------------------------------------------
\* t1 + t2
Concat(t1, t2) ==
    Text(t1.len + t2.len,
         [p \in DOMAIN t1.marks \cup {m + t1.len : m \in DOMAIN t2.marks} |->
             IF p \in DOMAIN t1.marks THEN t1.marks[p] ELSE t2.marks[p - t1.len]])

\* the texts of ts from the lo-th to the hi-th, joined
RECURSIVE JoinTexts(_, _, _)
JoinTexts(ts, lo, hi) ==
    IF lo > hi THEN Text(0, <<>>)
    ELSE IF lo = hi THEN ts[lo]
    ELSE LET mid == (lo + hi) \div 2
         IN  Concat(JoinTexts(ts, lo, mid), JoinTexts(ts, mid + 1, hi))

\* the end of the text covered by the chunks before the i-th
CoveredBefore(chunks, i) == MaxOf({0} \cup {chunks[j].end : j \in 1..(i - 1)})

\* the chunks joined, each without the characters an earlier chunk holds
Rebuild(chunks) ==
    JoinTexts([i \in 1..Len(chunks) |->
                  LET c == chunks[i]
                      pos == CoveredBefore(chunks, i)
                  IN  IF c.end > pos THEN Substring(c.text, pos - c.start, c.text.len)
                      ELSE Text(0, <<>>)],
              1, Len(chunks))

SplitLong == splitOut.called /\ splitCall.text.len > splitCall.chunkSize

SplitWhole == splitOut.called /\ splitCall.text.len <= splitCall.chunkSize

\* C13: the chunks of a text longer than chunkSize come in increasing start
\* order, the first span starts at 0, the last ends at the length of the
\* text, each span starts no later than the previous one ends, each chunk's
\* text is the text over its span, and the spans joined without their
\* overlaps are the text.
C13_ChunksCoverText ==
    SplitLong =>
        LET T == splitCall.text
            c == splitOut.chunks
            n == Len(c)
        IN  /\ n >= 1
            /\ c[1].start = 0
            /\ c[n].end = T.len
            /\ \A i \in 1..(n - 1) :
                   c[i].start < c[i + 1].start /\ c[i + 1].start <= c[i].end
            /\ \A i \in 1..n : c[i].text = Substring(T, c[i].start, c[i].end)
            /\ Rebuild(c) = T

\* a text split at a sentence end inside the search window, with overlap
C13_Witness ==
    /\ SplitLong
    /\ splitCall.text.len = MidTextLen
    /\ Len(splitOut.chunks) >= 3
    /\ splitOut.chunks[1].end # MidChunkSize
    /\ splitOut.chunks[2].start < splitOut.chunks[1].end

\* C14: a text of at most chunkSize characters, the empty text and a text
\* of exactly chunkSize characters included, comes back as one chunk: the
\* text itself, index 0, span [0, length).
C14_ShortTextIsOneChunk ==
    SplitWhole =>
        splitOut.chunks = <<Chunk(splitCall.text, 0, 0, splitCall.text.len)>>

\* a text of exactly chunkSize characters under a splitter with overlap
C14_Witness ==
    /\ SplitWhole
    /\ splitCall.text.len = splitCall.chunkSize
    /\ splitCall.chunkOverlap > 0
    /\ Len(splitOut.chunks) = 1

\* ------------------------------------------------------------------------
\* Properties of the submission in parts
\* ------------------------------------------------------------------------
\* C11: the note of 500,000 characters is submitted in exactly 3
\* add-text-source calls, titled "<title> (Part 1/3)", "(Part 2/3)" and
\* "(Part 3/3)" in that order: every call in flight is the call of part 1,
\* 2 or 3 of 3, and the item is done after 3 calls.
C11_ThreeParts ==
    /\ \A r \in RunIds :
          runs[r].pc = "add" =>
              /\ runs[r].chunk \in 1..3
              /\ SubmittedTitle(Current(r), runs[r])
                    = PartTitle(NoteTitle, runs[r].chunk, 3)
    /\ \A i \in DOMAIN uploadQueue :
          uploadQueue[i].status = "done" => hist[uploadQueue[i].id].adds = 3

\* C12: when an item is submitted in parts, the add-text-source call of
\* each part comes after a duplicate check of its own: with the call of
\* the k-th part in flight, at least k duplicate checks were made for the
\* item.
C12_CheckBeforeEachPart ==
    \A r \in RunIds :
        (runs[r].pc = "add" /\ runs[r].n > 0) =>
            hist[Current(r).id].dups >= runs[r].chunk

\* ------------------------------------------------------------------------
\* Properties of the worker pools
\* ------------------------------------------------------------------------
GivenIds == {loader.ids[k] : k \in DOMAIN loader.ids}

LoadsInFlight == {w \in WorkerIds : loader.workers[w].pc = "loading"}

\* C15: loadMultipleSourceContents calls loadSourceContent for every id of
\* ids exactly once: no id is loaded twice; while ids are left in the
\* queue some worker is loading, whatever failed before; and when the
\* function returns every id has been attempted and every load has
\* settled.
C15_EveryIdLoadedOnce ==
    /\ \A i \in SourceIds : loader.attempts[i] <= 1
    /\ \A i \in SourceIds : loader.attempts[i] = 1 => i \in GivenIds
    /\ (loader.pc = "running" /\ Len(loader.queue) > 0) => LoadsInFlight # {}
    /\ loader.pc = "returned" =>
          /\ \A i \in GivenIds : loader.attempts[i] = 1
          /\ LoadsInFlight = {}
          /\ loader.results \cup loader.failed = GivenIds

\* more ids than workers, the load of the first id failed, and the call
\* returned with contents for others
C15_Witness ==
    /\ loader.pc = "returned"
    /\ Len(loader.ids) > loader.concurrency
    /\ loader.concurrency > 1
    /\ 1 \in loader.failed
    /\ loader.results # {}

\* the background tabs of the extraction pools that are open
ExtractionTabs == {t \in TabIds : tabs[t] = "open"}

\* C16: at any time at most `concurrency` loads of source contents are in
\* flight in loadMultipleSourceContents, and at most 2 background tabs of
\* the extraction pool exist.
C16_PoolsAreCapped ==
    /\ loader.pc # "none" => Cardinality(LoadsInFlight) <= loader.concurrency
    /\ Cardinality(ExtractionTabs) <= CONCURRENCY

\* ------------------------------------------------------------------------
\* Properties of getNotebookExtendedContent
\* ------------------------------------------------------------------------
\* the section of rpcId has ended and its try block threw
SectionFailed(i) == i <= Len(ext.outcomes) /\ Failed(ext.outcomes[i])

\* the three calls are made in their order, one at a time, and each is made
\* whatever the earlier ones came to
ThreeCallsInSequence ==
    /\ \A i \in 1..Min2(3, Len(ext.issued)) : ext.issued[i] = ExtRpcs[i]
    /\ ext.pc \in {ExtRpcs[1], ExtRpcs[2], ExtRpcs[3]} =>
          Len(ext.issued) = Len(ext.outcomes) + 1
    /\ ext.pc \in {ContentRpc, "returned"} => Len(ext.outcomes) = 3
    /\ ext.pc # "threw"

\* what the sections that went through have pushed is in the result
SucceededDataReturned ==
    ext.pc = "returned" =>
        ext.got \subseteq (ext.notes \cup ext.mindmaps \cup ext.chatHistory
                           \cup ext.artifacts)

\* C17 as stated: the three calls are issued in sequence whatever fails,
\* the function never throws, and it returns the data of the calls that
\* succeeded with empty lists for those that failed.
C17_Original ==
    /\ ThreeCallsInSequence
    /\ SucceededDataReturned
    /\ ext.pc = "returned" =>
          /\ SectionFailed(1) => ext.notes = {} /\ ext.mindmaps = {}
          /\ SectionFailed(2) => ext.chatHistory = {}
          /\ SectionFailed(3) => ext.artifacts = {}

\* C17: the three calls are issued in sequence whatever fails, the function
\* never throws, and it returns the data of the calls that succeeded and
\* nothing for a call that failed; the notes list can hold the texts of
\* reports, which are fetched for the artifacts of the third call.
C17_BestEffortSections ==
    /\ ThreeCallsInSequence
    /\ SucceededDataReturned
    /\ ext.pc = "returned" =>
          /\ SectionFailed(1) => "note" \notin ext.notes /\ ext.mindmaps = {}
          /\ SectionFailed(2) => ext.chatHistory = {}
          /\ SectionFailed(3) => ext.artifacts = {} /\ "report" \notin ext.notes

\* the notes call failed, the two calls after it delivered, and a report
\* of the artifact list is among the notes returned
C17_Witness ==
    /\ ext.pc = "returned"
    /\ SectionFailed(1)
    /\ ext.chatHistory # {}
    /\ ext.artifacts # {}
    /\ ext.notes = {"report"}

\* ------------------------------------------------------------------------
\* Properties of the DOM extraction functions (SpecDom)
\* ------------------------------------------------------------------------
DomEnded == dom.out # "none"

\* C18: every DOM extraction function returns its declared empty value
\* ([], null or false) and never throws, on any failure: no matching tab,
\* a rejected tab query or script injection, or a timeout.
C18_EmptyOnAnyFailure ==
    DomEnded =>
        /\ dom.out # "threw"
        /\ dom.failure # "none" => dom.out = EmptyValue(dom.fn)

\* ------------------------------------------------------------------------
\* Properties of the waits of the DOM extraction engine (SpecWaits)
\* ------------------------------------------------------------------------
WaitEnded == wait.pc = "done"

\* C19: every poll loop and every tab-load wait ends no later than its
\* deadline whatever the tab does, and on deadline the operation yields
\* its not-found result instead of waiting further.
C19_WaitsEndByDeadline ==
    WaitEnded =>
        /\ wait.elapsed <= wait.deadline
        /\ wait.elapsed = wait.deadline => wait.out \in {"went on", "not found", "threw"}

\* ------------------------------------------------------------------------
\* Properties of deleteSources (SpecDelete)
\* ------------------------------------------------------------------------
RECURSIVE FlattenBatches(_)
\* the ids of the batches, one batch after the other
FlattenBatches(batches) ==
    IF batches = <<>> THEN <<>> ELSE Head(batches) \o FlattenBatches(Tail(batches))

\* ceil(n / BATCH_SIZE)
BatchCount(n) == (n + BATCH_SIZE - 1) \div BATCH_SIZE

\* C20: deleteSources with n ids issues ceil(n/20) delete RPCs in order,
\* each carrying at most 20 ids, with every id in exactly one batch and the
\* order of ids preserved; when all batches succeed it returns
\* deletedCount = n, and for an empty list it issues no RPC and returns
\* deletedCount = 0.
C20_DeleteInBatches ==
    LET n == Len(del.sourceIds)
        sent == FlattenBatches(del.rpcs)
    IN  /\ \A k \in DOMAIN del.rpcs : Len(del.rpcs[k]) \in 1..BATCH_SIZE
        /\ Len(sent) <= n
        /\ sent = SubSeq(del.sourceIds, 1, Len(sent))
        /\ Len(del.rpcs) <= BatchCount(n)
        /\ del.pc = "returned" =>
              /\ Len(del.rpcs) = BatchCount(n)
              /\ sent = del.sourceIds
              /\ del.deletedCount = n
              /\ del.success
        /\ del.pc = "returned" /\ n = 0 => del.rpcs = <<>> /\ del.deletedCount = 0

\* a list of more than two batches has been deleted, with a last batch
\* that is not full
C20_Witness ==
    /\ del.pc = "returned"
    /\ Len(del.sourceIds) > 2 * BATCH_SIZE
    /\ Len(del.rpcs) = 3
    /\ Len(del.rpcs[3]) < BATCH_SIZE
    /\ del.deletedCount = Len(del.sourceIds)

\* the empty list has been handed in
C20_WitnessEmpty ==
    /\ del.pc = "returned"
    /\ del.sourceIds = <<>>

\* ------------------------------------------------------------------------
\* Properties of loadSourceContent (SpecFulltext)
\* ------------------------------------------------------------------------
\* C21: loadSourceContent issues the secondary guide call only after the
\* primary full-text call has failed or yielded no content, never when the
\* primary call yielded content; it returns the primary content when there
\* is some, otherwise the guide content, and returns null without throwing
\* when both calls fail or yield nothing.
C21_GuideOnlyAsFallback ==
    \A c \in FulltextIds :
        LET call == fulltext[c]
        IN  /\ call.rpcs \in {<<>>, <<FulltextRpc>>, <<FulltextRpc, GuideRpc>>}
            /\ Len(call.rpcs) = 2 => call.primary \in RpcOutcomes \ {"content"}
            /\ call.primary = "content" => call.pc = "returned" /\ call.result = "fulltext"
            /\ call.pc = "returned" =>
                  /\ call.result \in {"fulltext", "guide", "null"}
                  /\ call.result = "fulltext" <=> call.primary = "content"
                  /\ call.result # "fulltext" => Len(call.rpcs) = 2
                  /\ call.result = "guide" <=>
                        call.primary # "content" /\ call.guide = "content"

\* one call has returned the guide after a rejected primary call, another
\* has returned null after two calls that gave nothing
C21_Witness ==
    \E c, d \in FulltextIds :
        /\ fulltext[c].primary = "rejected" /\ fulltext[c].result = "guide"
        /\ fulltext[d].primary = "nothing" /\ fulltext[d].result = "null"
        /\ Len(fulltext[d].rpcs) = 2

\* ------------------------------------------------------------------------
\* Properties of the lifetime of the session tokens (SpecTokens)
\* ------------------------------------------------------------------------
\* an rpc call of c begins in this step
RpcBegins(c) == callers[c].pc = "idle" /\ callers'[c].pc # "idle"

SomeCallFailed == \E d \in CallerIds : callers[d].pc = "failed"

\* C22: session tokens, once obtained, are reused by every later rpc call
\* without a new token-page fetch until a call fails; after a call has
\* failed the cached tokens are no longer used, and the next rpc call
\* fetches fresh tokens before sending its request.
C22_TokensDroppedOnFailure ==
    [][\A c \in CallerIds :
          RpcBegins(c) =>
              IF SomeCallFailed
              THEN callers'[c].pc \in {"fetch", "sleep"}
              ELSE tokens # NoTokens =>
                      /\ callers'[c] = [pc |-> "post", used |-> tokens]
                      /\ fetchCount' = fetchCount]_vars

\* ------------------------------------------------------------------------
\* Properties of the classification of RPC error codes (SpecAdd)
\* ------------------------------------------------------------------------
\* the call has classified the code its izAoDd response reports
CodeClassified ==
    /\ CallSettled /\ addCall.rpc.ok /\ addOut.rpcId = "izAoDd"
    /\ ReportedCode # NoCode

\* C23: the classification of RPC error codes is total and given by one
\* static table: every code is exactly one of benign or fatal, and every
\* place that classifies codes (addSource, addTextSource, the upload
\* queue) gives the same answer for the same code.  A place that finds a
\* code unexpected says so (console.warn), so for the code of the response
\* in hand the call warns exactly when the code is outside the one table,
\* and the table of the queue has the code exactly when that table has it.
C23_OneTableOfCodes ==
    CodeClassified =>
        /\ addOut.warned <=> ReportedCode \notin BenignCodes
        /\ ReportedCode \in QueueNormalErrorCodes <=> ReportedCode \in BenignCodes

\* ------------------------------------------------------------------------
\* Properties of late calls of processQueue (SpecQueue)
\* ------------------------------------------------------------------------
\* C24: a processQueue call made while another run is in progress does not
\* complete before that in-flight run has finished: the late caller awaits
\* the busy flag's resolution, and starts no work of its own.  So no run
\* that is still at work has seen a late call return, and at most one run
\* is at work.
C24_LateCallerAwaitsRun ==
    /\ \A r \in RunIds : Active(r) => ~runs[r].late
    /\ Cardinality({r \in RunIds : Active(r)}) <= 1

\* ------------------------------------------------------------------------
\* Properties of the delay between items (SpecQueue)
\* ------------------------------------------------------------------------
\* in this step run r, at work on an item, starts the processing of a
\* later item of its snapshot
NextItemStarts(r) ==
    /\ Active(r)
    /\ runs'[r].pc = "dup"
    /\ runs'[r].idx > runs[r].idx

\* C25: between any two consecutive items processed in a processQueue run,
\* a delay of QUEUE_DELAY_MS elapses after the first item reaches its
\* terminal status and before the processing of the next item starts,
\* whatever that terminal status is.  So the step that starts a later item
\* is the end of the delay that followed the item before it.
C25_DelayBetweenItems ==
    [][\A r \in RunIds :
          NextItemStarts(r) =>
              /\ runs[r].pc = "delay"
              /\ runs'[r].idx = runs[r].idx + 1]_vars

\* C26: splitText ends for every text, every chunkSize >= 1 and every
\* overlap >= 0, overlap >= chunkSize included: after each chunk start moves
\* to end - overlap but to no less than the previous start + 1, so the
\* starts of the chunks strictly increase, there are at most as many chunks
\* as characters, and the loop is left because start has reached the end of
\* the text.
C26_SplitTerminates ==
    SplitLong =>
        LET T == splitCall.text
            overlap == splitCall.chunkOverlap
            c == splitOut.chunks
            n == Len(c)
            after(i) == Max2(c[i].start + 1, c[i].end - overlap)
        IN  /\ n >= 1
            /\ n <= T.len
            /\ \A i \in 1..(n - 1) :
                   c[i + 1].start = after(i) /\ c[i + 1].start > c[i].start
            /\ after(n) >= T.len

\* a splitter whose overlap is at least its chunkSize: after some chunk
\* end - overlap is not past the chunk's start, and the next chunk starts
\* one character later
C26_Witness ==
    /\ SplitLong
    /\ splitCall.chunkOverlap >= splitCall.chunkSize
    /\ \E i \in 1..(Len(splitOut.chunks) - 1) :
           /\ splitOut.chunks[i].end - splitCall.chunkOverlap <= splitOut.chunks[i].start
           /\ splitOut.chunks[i + 1].start = splitOut.chunks[i].start + 1

\* the status of the item id in the queue ("" when the queue has no such item)
StatusOf(id) ==
    IF \E i \in DOMAIN uploadQueue : uploadQueue[i].id = id
    THEN LET i == CHOOSE k \in DOMAIN uploadQueue : uploadQueue[k].id = id
         IN  uploadQueue[i].status
    ELSE ""

\* C27: every item added with addAndProcess reaches status done or error
\* in the end with no further call made, an item added while a run is in
\* progress included.
C27_AddedItemsEnd ==
    \A id \in ItemIds :
        (StatusOf(id) # "") ~> (StatusOf(id) \in {"done", "error"})

\* ------------------------------------------------------------------------
\* Properties of removed items (SpecQueue)
\* ------------------------------------------------------------------------
\* in this step a run starts the processing of the item id: processItem is
\* entered and issues the duplicate check, the first request made for an
\* item and made before any add-source RPC
CheckIssued(id) == hist'[id].dups > hist[id].dups

\* C28: an item removed from the queue (removeFromQueue, clearQueue) before
\* its processing has started is never submitted: whenever a run starts on
\* an item and issues its duplicate check, the item is in the queue.
C28_RemovedNeverSubmitted ==
    [][\A id \in ItemIds :
          CheckIssued(id) => \E i \in DOMAIN uploadQueue' : uploadQueue'[i].id = id]_vars

\* ------------------------------------------------------------------------
\* Properties of the last chunk (SpecSplit)
\* ------------------------------------------------------------------------
\* C29: in the chunks of a text T longer than chunkSize exactly one chunk
\* ends at |T|, the last one: no chunk follows a chunk that reaches the end
\* of the text, and no chunk's span lies inside the span of the chunk
\* before it.
C29_OneChunkReachesEnd ==
    SplitLong =>
        LET T == splitCall.text
            c == splitOut.chunks
            n == Len(c)
        IN  /\ n >= 1
            /\ c[n].end = T.len
            /\ \A i \in 1..(n - 1) :
                   /\ c[i].end < T.len
                   /\ ~(c[i].start <= c[i + 1].start /\ c[i + 1].end <= c[i].end)

\* ------------------------------------------------------------------------
\* Properties of the onUpdated listeners (SpecWaits)
\* ------------------------------------------------------------------------
\* C30: the chrome.tabs.onUpdated listener a tab-load wait registers (in
\* ensureNotebookOpen, and in the initial-load and iframe-navigation waits
\* of extractDataFromBackgroundTab) is removed by the time the wait
\* resolves, on the load-complete path and on the timeout path alike.
C30_ListenersRemoved ==
    (WaitEnded /\ IsLoadWait(wait.kind)) => ~wait.listener

====
